---- MODULE Spec2Model ----
(***************************************************************************)
(* Verification model of the sonar-assist core of sushi-glitch:            *)
(*   - CentroidTracker        (backend/sonar_assist/metrics.py)            *)
(*   - GroqCV.should_query    (backend/sonar_assist/groq_cv.py)            *)
(*   - DebounceManager        (backend/sonar_assist/tts_elevenlabs.py)     *)
(*                                                                         *)
(* Distances are Euclidean in the source (scipy cdist).  Centroids are     *)
(* integer points here, so every comparison of two distances, and of a     *)
(* distance with max_distance, is done exactly on the squared values.      *)
(***************************************************************************)
EXTENDS Integers, Sequences, FiniteSets, TLC

VARIABLES
    \* ---- CentroidTracker fields (metrics.py:56-61)
    next_object_id,      \* next id to hand out
    objects,             \* id -> centroid
    disappeared,         \* id -> consecutive missed frames
    detections_history,  \* id -> sequence of detections
    max_disappeared,     \* constructor argument
    \* ---- observation of the last update call
    result,              \* the map update returned
    last_dets,           \* the detection list update was called with
    matched,             \* ids that were matched by the last update call
    frame,               \* number of update calls made so far
    \* ---- history of the run
    issued,              \* ids in the order register handed them out
    misses,              \* id -> consecutive update calls without a match
    removed_at,          \* id -> centroid a track had when it was removed
    steady,              \* every call so far carried one detection near the last one
    \* ---- GroqCV.should_query: the arguments of one call and its result
    enabled,             \* GroqCV.enabled (an API key is configured)
    q_frame_count,
    q_sample_rate_hz,
    q_fps,
    q_cv_confidence,     \* <<>> for None, <<c>> for a value c
    q_pc,                \* "call" before the call, "done" after it
    q_ret,
    \* ---- DebounceManager fields (tts_elevenlabs.py:217-220) and its clock
    last_message,
    last_time,
    now,                 \* what time.time() returns
    d_message,           \* argument of the last should_speak call, <<>> before the first
    d_ret,               \* what the last should_speak call returned
    suppressed,          \* calls refused since the last call that was allowed
    reallowed,           \* the last call allowed, right when the window closed, the
                         \* text that calls before it were refused for
    \* ---- DepthCalibrator (calibration.py) and the config file it persists to
    calibration_data,    \* [pix_top, pix_bot, ft_top, ft_bot]
    store,               \* content of the config file
    cal_ret,             \* what the last calibrate_interactive call of this process
                         \* returned: <<>> before the first, <<TRUE>> or <<FALSE>>
    confirmed,           \* <<m>> for the mapping m of the last call that returned
                         \* True in any process so far, <<>> if there was none
    c_pixel_y,           \* argument of pixel_to_depth
    c_depth_ft,          \* argument of depth_to_pixel
    c_pc,                \* "call" before the conversions, "done" after them
    c_depth,             \* pixel_to_depth(c_pixel_y), a fraction <<n, d>>
    c_pixel,             \* depth_to_pixel(c_depth_ft)
    c_round,             \* pixel_to_depth(depth_to_pixel(c_depth_ft))
    \* ---- cluster_detections (metrics.py:295-358): the arguments of one call and its result
    cl_detections,
    cl_merge_distance,
    cl_pc,               \* "call" before the call, "done" after it
    cl_ret,
    cl_merges,           \* how many times two clusters were merged during the call
    cl_clusters,         \* the clusters the loop ended with, each a list of input detections
    \* ---- _generate_recommendation (app.py:259-311, video_analyzer.py:206-243):
    \* ---- the arguments of one call and what each pipeline returns for them
    r_detections,
    r_groq_result,       \* <<>> for None, <<[class, confidence]>> for a result
    r_config,            \* the config values the function reads
    r_pc,                \* "call" before the calls, "done" after them
    r_live,              \* SonarAssist._generate_recommendation, <<>> for None
    r_video,             \* VideoSonarAnalyzer._generate_recommendation, <<>> for None
    \* ---- SonarAssist fields (app.py:72-82) and one iteration of run's loop
    running,
    paused,
    show_overlay,
    l_frame_count,       \* self.frame_count
    l_fps,               \* self.fps, a fraction <<n, d>>
    last_fps_time,
    pending_key,         \* the key press waiting for cv2.waitKey, "none" if there is none
    l_iteration,         \* the number of iterations of the loop so far, modulo 2
    l_frame,             \* what the last iteration got from _capture_roi
    l_recommendation,    \* the cue process_frame returned in the last iteration, <<>> for None
    l_speech,            \* the cue the last iteration created a speak task for, <<>> for none
    \* ---- GroqCV.analyze (groq_cv.py:78-208): the conditions of one call and its outcome
    a_enabled,           \* GroqCV.enabled
    a_encode,            \* "ok" or "error": how _encode_frame ends
    a_request,           \* "ok", "timeout" or "error": how the HTTP exchange ends
    a_status,            \* response.status
    a_body,              \* which of Bodies response.json() gives
    a_pc,                \* "call" before the call, "done" after it
    a_outcome,           \* what analyze returned or raised
    a_pipeline,          \* how process_frame went on after awaiting analyze
    \* ---- the video_analyzer of main.py:38 serving the requests of analyze_sonar_video
    \* ---- (main.py:133-165), one VideoSonarAnalyzer.analyze_video call per request
    v_pc,                \* per request: "idle", "loop", "groq" (suspended in analyze), "done", "raised"
    v_turn,              \* the request whose coroutine the event loop is running, 0 if none
    v_fps,               \* per request: cap.get(cv2.CAP_PROP_FPS)
    v_len,               \* per request: the number of frames the video file holds
    v_frame_idx,         \* per request: frame_idx
    v_read,              \* per request: the frames cap.read() has given so far
    all_detections,      \* per request: the list of records built so far
    v_ret,               \* per request: what analyze_video returned
    v_owner,             \* for every track id issued, the request whose frame registered it
    v_use_groq,          \* config['groq']['use_groq']
    v_sample_rate_hz,    \* config['groq']['sample_rate_hz']
    \* ---- SonarAssist.run and process_frame (app.py:209-257, 395-462) step by step:
    \* ---- an iteration is cut where the coroutine suspends in groq_cv.analyze
    l_pc,                \* "loop" at the top of the while loop, "groq" suspended in analyze,
                         \* or the call whose exception ended run: "draw_error", "show_error", "analyze_error"
    l_queries,           \* for every processed frame so far, whether it triggered a classifier query
    l_log,               \* the cue the last iteration's speak call printed as [VOICE] text, <<>> for none
    l_loop_start,        \* loop_start of the iteration under way
    l_resume,            \* the time the frame-rate sleep of the last iteration ends
    l_use_groq,          \* config['groq']['use_groq']
    l_sample_rate_hz,    \* config['groq']['sample_rate_hz']
    l_target_fps,        \* config['capture']['target_fps']
    \* ---- TTSElevenLabs (tts_elevenlabs.py:23-102) and the speak tasks run creates
    tts_enabled,         \* TTSElevenLabs.enabled
    last_spoken,         \* text -> time of the last speak call that went on to generate audio
    in_flight            \* the speak tasks awaiting generation or playback, oldest first

trackerVars == <<next_object_id, objects, disappeared, detections_history,
                 max_disappeared, result, last_dets, matched, frame,
                 issued, misses, removed_at, steady>>

queryVars == <<enabled, q_frame_count, q_sample_rate_hz, q_fps, q_cv_confidence,
               q_pc, q_ret>>

debounceVars == <<last_message, last_time, now, d_message, d_ret, suppressed, reallowed>>

calVars == <<calibration_data, store, cal_ret, confirmed, c_pixel_y, c_depth_ft, c_pc,
             c_depth, c_pixel, c_round>>

clusterVars == <<cl_detections, cl_merge_distance, cl_pc, cl_ret, cl_merges, cl_clusters>>

recVars == <<r_detections, r_groq_result, r_config, r_pc, r_live, r_video>>

liveVars == <<running, paused, show_overlay, l_frame_count, l_fps, last_fps_time, pending_key,
              l_iteration, l_frame, l_recommendation, l_speech>>

analyzeVars == <<a_enabled, a_encode, a_request, a_status, a_body, a_pc, a_outcome,
                 a_pipeline>>

videoVars == <<v_pc, v_turn, v_fps, v_len, v_frame_idx, v_read, all_detections, v_ret, v_owner,
               v_use_groq, v_sample_rate_hz>>

runVars == <<l_pc, l_queries, l_log, l_loop_start, l_resume, l_use_groq, l_sample_rate_hz,
             l_target_fps>>

speechVars == <<tts_enabled, last_spoken, in_flight>>

vars == <<trackerVars, queryVars, debounceVars, calVars, clusterVars, recVars, liveVars, analyzeVars, videoVars, runVars, speechVars>>

----------------------------------------------------------------------------
(* Bounds of the exploration *)

MaxFrames == 3            \* update calls per run
MaxDets == 2              \* detections per frame
MaxMaxDisappeared == 1    \* largest max_disappeared a tracker is built with

(* CentroidTracker.__init__ default max_distance *)
MaxDistance == 50

(* Centroids the detector may report.  Pairwise distances are 50 (exactly  *)
(* max_distance), 30 (inside the gate) and sqrt(5200) ~ 72.1 (outside).    *)
Points == {<<0, 0>>, <<30, 40>>, <<60, 40>>}

----------------------------------------------------------------------------
(* Generic helpers *)

Put(f, k, v) == [x \in (DOMAIN f) \cup {k} |-> IF x = k THEN v ELSE f[x]]

Remove(f, k) == [x \in (DOMAIN f) \ {k} |-> f[x]]

EmptyMap == [x \in {} |-> 0]

SetMin(S) == CHOOSE x \in S : \A y \in S : x <= y

RECURSIVE Ascending(_)
Ascending(S) ==
    IF S = {} THEN <<>>
    ELSE LET m == SetMin(S) IN <<m>> \o Ascending(S \ {m})

----------------------------------------------------------------------------
(* Detection: only the centroid is read by the tracker; uid stands for the *)
(* identity of the Python object (call number, position in the list).      *)

MkDetections(pts, n) ==
    [i \in 1..Len(pts) |-> [centroid |-> pts[i], uid |-> <<n, i>>]]

DetLists == UNION {[1..k -> Points] : k \in 0..MaxDets}

Dist2(p, q) == (p[1] - q[1]) * (p[1] - q[1]) + (p[2] - q[2]) * (p[2] - q[2])

----------------------------------------------------------------------------
(* CentroidTracker, as a record T of its four fields plus the issue log    *)

TrackerState ==
    [next_object_id |-> next_object_id, objects |-> objects,
     disappeared |-> disappeared, detections_history |-> detections_history,
     issued |-> issued]

(* A register that hands out the smallest id not in the table *)
registerReusingFreeId(T, centroid, detection) ==
    LET id == SetMin((0..T.next_object_id) \ DOMAIN T.objects)
    IN  [T EXCEPT
            !.objects = Put(T.objects, id, centroid),
            !.disappeared = Put(T.disappeared, id, 0),
            !.detections_history = Put(T.detections_history, id, <<detection>>),
            !.issued = Append(T.issued, id),
            !.next_object_id = T.next_object_id + 1]

register(T, centroid, detection) ==
    [T EXCEPT
        !.objects = Put(T.objects, T.next_object_id, centroid),
        !.disappeared = Put(T.disappeared, T.next_object_id, 0),
        !.detections_history = Put(T.detections_history, T.next_object_id, <<detection>>),
        !.issued = Append(T.issued, T.next_object_id),
        !.next_object_id = T.next_object_id + 1]

deregister(T, object_id) ==
    [T EXCEPT
        !.objects = Remove(T.objects, object_id),
        !.disappeared = Remove(T.disappeared, object_id),
        !.detections_history = Remove(T.detections_history, object_id)]

(* A removal test that fires one miss early *)
ExpiredOneEarly(count) == count >= max_disappeared

(* self.disappeared[object_id] > self.max_disappeared *)
Expired(count) == count > max_disappeared

(* disappeared[id] += 1; deregister when it exceeds max_disappeared *)
MarkDisappeared(T, object_id) ==
    LET T1 == [T EXCEPT !.disappeared[object_id] = @ + 1]
    IN  IF Expired(T1.disappeared[object_id])
        THEN deregister(T1, object_id)
        ELSE T1

RECURSIVE MarkAll(_, _)
MarkAll(T, ids) ==
    IF ids = <<>> THEN T
    ELSE MarkAll(MarkDisappeared(T, Head(ids)), Tail(ids))

RECURSIVE RegisterCols(_, _, _)
RegisterCols(T, dets, cols) ==
    IF cols = <<>> THEN T
    ELSE RegisterCols(register(T, dets[Head(cols)].centroid, dets[Head(cols)]),
                      dets, Tail(cols))

(* D.min(axis=1)[row] and D.argmin(axis=1)[row]: argmin is the first index *)
RowMin(c, dets) ==
    SetMin({Dist2(c, dets[j].centroid) : j \in 1..Len(dets)})

RowArgMin(c, dets) ==
    SetMin({j \in 1..Len(dets) : Dist2(c, dets[j].centroid) = RowMin(c, dets)})

(* D.min(axis=1).argsort(): every order of the rows that is ascending in   *)
(* the row minimum; numpy's default sort is not stable, so rows with equal *)
(* minima may come out in any order.                                       *)
RECURSIVE RowOrders(_, _, _)
RowOrders(S, object_ids, dets) ==
    IF S = {} THEN {<<>>}
    ELSE LET key(r) == RowMin(objects[object_ids[r]], dets)
             least == {r \in S : \A s \in S : key(r) <= key(s)}
         IN  UNION {{<<r>> \o o : o \in RowOrders(S \ {r}, object_ids, dets)} : r \in least}

(* A gate that also rejects a detection at exactly max_distance *)
TooFarAtGate(d2) == d2 >= MaxDistance * MaxDistance

(* D[row, col] > self.max_distance, on squared distances *)
TooFar(d2) == d2 > MaxDistance * MaxDistance

(* A skip test that forgets the columns already taken *)
TakenRowsOnly(M, row, col) == row \in M.used_rows

(* row in used_rows or col in used_cols *)
Taken(M, row, col) == row \in M.used_rows \/ col \in M.used_cols

(* A match that leaves the miss counter as it was *)
AssignKeepingCount(M, row, col, object_id, dets) ==
    [M EXCEPT
        !.T.objects[object_id] = dets[col].centroid,
        !.T.detections_history[object_id] = Append(@, dets[col]),
        !.used_rows = @ \cup {row},
        !.used_cols = @ \cup {col}]

(* The body of the loop for a pair that passes both tests *)
Assign(M, row, col, object_id, dets) ==
    [M EXCEPT
        !.T.objects[object_id] = dets[col].centroid,
        !.T.disappeared[object_id] = 0,
        !.T.detections_history[object_id] = Append(@, dets[col]),
        !.used_rows = @ \cup {row},
        !.used_cols = @ \cup {col}]

(* The matching loop (metrics.py:117-130).  M carries the tracker fields   *)
(* and used_rows / used_cols.                                              *)
RECURSIVE MatchLoop(_, _, _, _)
MatchLoop(M, rows, object_ids, dets) ==
    IF rows = <<>> THEN M
    ELSE
      LET row == Head(rows)
          object_id == object_ids[row]
          col == RowArgMin(objects[object_id], dets)
      IN  IF Taken(M, row, col)
          THEN MatchLoop(M, Tail(rows), object_ids, dets)
          ELSE IF TooFar(Dist2(objects[object_id], dets[col].centroid))
          THEN MatchLoop(M, Tail(rows), object_ids, dets)
          ELSE MatchLoop(Assign(M, row, col, object_id, dets),
                         Tail(rows), object_ids, dets)

(* The map built at the end of update (metrics.py:145-151) *)
CurrentResult(T) ==
    LET keys == {id \in DOMAIN T.objects : Len(T.detections_history[id]) > 0}
    IN  [id \in keys |-> T.detections_history[id][Len(T.detections_history[id])]]

(* update(detections) for one order of the sorted rows.  Gives the new     *)
(* tracker fields, the returned map and the ids that were matched.         *)
(* object_ids is ascending: the OrderedDict keeps insertion order and ids  *)
(* are inserted in increasing order.  unused_rows and unused_cols are sets *)
(* of small ints, which CPython iterates in ascending order; the order of  *)
(* unused_rows does not affect the outcome.                                *)
update(T, dets, rows) ==
    IF Len(dets) = 0 THEN
        [T |-> MarkAll(T, Ascending(DOMAIN T.disappeared)),
         ret |-> EmptyMap, used |-> {}]
    ELSE IF Cardinality(DOMAIN T.objects) = 0 THEN
        LET T1 == RegisterCols(T, dets, [i \in 1..Len(dets) |-> i])
        IN  [T |-> T1, ret |-> CurrentResult(T1), used |-> {}]
    ELSE
        LET object_ids == Ascending(DOMAIN T.objects)
            M == MatchLoop([T |-> T, used_rows |-> {}, used_cols |-> {}],
                           rows, object_ids, dets)
            unused_rows == (1..Len(object_ids)) \ M.used_rows
            unused_cols == (1..Len(dets)) \ M.used_cols
            T1 == MarkAll(M.T, [i \in 1..Cardinality(unused_rows) |->
                                   object_ids[Ascending(unused_rows)[i]]])
            T2 == RegisterCols(T1, dets, Ascending(unused_cols))
        IN  [T |-> T2, ret |-> CurrentResult(T2),
             used |-> {object_ids[r] : r \in M.used_rows}]

----------------------------------------------------------------------------
(* The tracker as a state machine *)

InitTracker ==
    /\ next_object_id = 0
    /\ objects = EmptyMap
    /\ disappeared = EmptyMap
    /\ detections_history = EmptyMap
    /\ max_disappeared \in 0..MaxMaxDisappeared
    /\ result = EmptyMap
    /\ last_dets = <<>>
    /\ matched = {}
    /\ frame = 0
    /\ issued = <<>>
    /\ misses = EmptyMap
    /\ removed_at = EmptyMap
    /\ steady = TRUE

(* One call of CentroidTracker.update with the detections at pts *)
UpdateWith(pts) ==
    /\ LET dets == MkDetections(pts, frame + 1)
             object_ids == Ascending(DOMAIN objects)
         IN  \E rows \in RowOrders(IF Len(dets) = 0 THEN {} ELSE 1..Len(object_ids),
                                   object_ids, dets) :
               \E U \in {update(TrackerState, dets, rows)} :
               LET gone == (DOMAIN objects) \ (DOMAIN U.T.objects)
                   born == {U.T.issued[i] : i \in (Len(issued) + 1)..Len(U.T.issued)}
               IN  /\ next_object_id' = U.T.next_object_id
                   /\ objects' = U.T.objects
                   /\ disappeared' = U.T.disappeared
                   /\ detections_history' = U.T.detections_history
                   /\ issued' = U.T.issued
                   /\ result' = U.ret
                   /\ last_dets' = dets
                   /\ matched' = U.used
                   /\ frame' = frame + 1
                   /\ misses' = [id \in (DOMAIN misses) \cup born |->
                                    IF id \in born \/ id \in U.used THEN 0
                                    ELSE IF id \in DOMAIN objects THEN misses[id] + 1
                                    ELSE misses[id]]
                   /\ removed_at' = [id \in (DOMAIN removed_at) \cup gone |->
                                        IF id \in gone THEN objects[id] ELSE removed_at[id]]
                   /\ steady' = (/\ steady
                                 /\ Len(dets) = 1
                                 /\ \/ frame = 0
                                    \/ /\ Len(last_dets) = 1
                                       /\ Dist2(last_dets[1].centroid, dets[1].centroid)
                                            <= MaxDistance * MaxDistance)
    /\ UNCHANGED max_disappeared

(* One call of CentroidTracker.update with a detection list *)
Update ==
    /\ frame < MaxFrames
    /\ \E pts \in DetLists : UpdateWith(pts)

IdleTracker ==
    /\ next_object_id = 0
    /\ objects = EmptyMap
    /\ disappeared = EmptyMap
    /\ detections_history = EmptyMap
    /\ max_disappeared = 0
    /\ result = EmptyMap
    /\ last_dets = <<>>
    /\ matched = {}
    /\ frame = 0
    /\ issued = <<>>
    /\ misses = EmptyMap
    /\ removed_at = EmptyMap
    /\ steady = TRUE

----------------------------------------------------------------------------
(* GroqCV.should_query (groq_cv.py:254-285).  fps and sample_rate_hz are   *)
(* floats in the source; here both are whole numbers of one common unit,   *)
(* so fps / sample_rate_hz is the exact quotient of the two.  A confidence *)
(* and the ambiguity threshold are in hundredths.                          *)

MaxFrameCount == 6        \* largest frame_count passed
MaxFps == 6               \* largest fps passed
MaxRate == 3              \* largest sample_rate_hz passed

(* default of ambiguity_threshold, 0.5 *)
AmbiguityThreshold == 50

(* Optional[float]: None is <<>>, a value c is <<c>> *)
NoConfidence == <<>>

Confidences == {<<c>> : c \in {0, 49, 50, 51, 100}}

Max(a, b) == IF a >= b THEN a ELSE b

(* int(a / b) for b > 0: Python's int() truncates toward zero *)
PyInt(a, b) == IF a >= 0 THEN a \div b ELSE 0 - ((0 - a) \div b)

(* A spacing that makes a non-positive rate sample every frame *)
FramesBetweenSamplesEveryFrame(fps, sample_rate_hz) ==
    IF sample_rate_hz > 0
    THEN [inf |-> FALSE, n |-> PyInt(fps, sample_rate_hz)]
    ELSE [inf |-> FALSE, n |-> 1]

(* int(fps / sample_rate_hz) if sample_rate_hz > 0 else float('inf') *)
FramesBetweenSamples(fps, sample_rate_hz) ==
    IF sample_rate_hz > 0
    THEN [inf |-> FALSE, n |-> PyInt(fps, sample_rate_hz)]
    ELSE [inf |-> TRUE, n |-> 0]

(* max(1, frames_between_samples): max(1, inf) is inf *)
MaxWithOne(f) == IF f.inf THEN f ELSE [inf |-> FALSE, n |-> Max(1, f.n)]

(* frame_count % m for frame_count >= 0: x % inf is x itself *)
PyMod(frame_count, m) == IF m.inf THEN frame_count ELSE frame_count % m.n

IsSampleFrame(frame_count, sample_rate_hz, fps) ==
    PyMod(frame_count, MaxWithOne(FramesBetweenSamples(fps, sample_rate_hz))) = 0

(* An ambiguity test that includes the threshold itself *)
IsAmbiguousInclusive(cv_confidence) ==
    cv_confidence # NoConfidence /\ cv_confidence[1] <= AmbiguityThreshold

(* cv_confidence is not None and cv_confidence < ambiguity_threshold *)
IsAmbiguous(cv_confidence) ==
    cv_confidence # NoConfidence /\ cv_confidence[1] < AmbiguityThreshold

should_query(frame_count, sample_rate_hz, fps, cv_confidence) ==
    IF ~enabled THEN FALSE
    ELSE IsSampleFrame(frame_count, sample_rate_hz, fps) \/ IsAmbiguous(cv_confidence)

IdleQuery ==
    /\ enabled = FALSE
    /\ q_frame_count = 0
    /\ q_sample_rate_hz = 1
    /\ q_fps = 0
    /\ q_cv_confidence = NoConfidence
    /\ q_pc = "done"
    /\ q_ret = FALSE

InitQuery ==
    /\ enabled \in BOOLEAN
    /\ q_frame_count \in 0..MaxFrameCount
    /\ q_sample_rate_hz \in (0 - 1)..MaxRate
    /\ q_fps \in (0 - 2)..MaxFps
    /\ q_cv_confidence \in {NoConfidence} \cup Confidences
    /\ q_pc = "call"
    /\ q_ret = FALSE

(* One call of should_query with the arguments drawn in the initial state *)
ShouldQuery ==
    /\ q_pc = "call"
    /\ q_ret' = should_query(q_frame_count, q_sample_rate_hz, q_fps, q_cv_confidence)
    /\ q_pc' = "done"
    /\ UNCHANGED <<enabled, q_frame_count, q_sample_rate_hz, q_fps, q_cv_confidence>>

----------------------------------------------------------------------------
(* DebounceManager (tts_elevenlabs.py:206-269).  Time is counted in ticks  *)
(* of half a second.  A message is the sequence of words str.split() cuts  *)
(* it into; should_speak is called with cue texts, which have at least one *)
(* word (both callers test the recommendation for emptiness first), while  *)
(* last_message of a fresh debouncer is the empty string.                  *)

MaxTime == 10             \* last clock reading explored
MaxSuppressed == 2        \* the count of refused calls saturates here

(* default of debounce_sec, 2.5 s *)
DebounceSec == 5

(* default of similarity_threshold, 0.8, in hundredths *)
SimilarityThreshold == 80

EmptyMessage == <<>>

Messages ==
    { <<"drop", "to", "44", "and", "hold">>,
      <<"Drop", "TO", "44", "and", "hold">>,
      <<"hold", "hold", "and", "44", "to", "drop">>,
      <<"drop", "to", "44", "hold">>,
      <<"drop", "to", "44">>,
      <<"troll", "through", "37">> }

(* str.lower() on the words that occur *)
Lower(w) ==
    CASE w = "Drop" -> "drop"
      [] w = "TO" -> "to"
      [] OTHER -> w

(* set(msg.lower().split()) *)
Words(msg) == {Lower(msg[i]) : i \in 1..Len(msg)}

(* A comparison that needs the overlap to be above the threshold *)
AtLeastThresholdStrict(inter, union) ==
    100 * inter > SimilarityThreshold * union

(* len(intersection) / len(union) >= self.similarity_threshold *)
AtLeastThreshold(inter, union) ==
    100 * inter >= SimilarityThreshold * union

_is_similar(msg1, msg2) ==
    IF msg1 = EmptyMessage \/ msg2 = EmptyMessage THEN FALSE
    ELSE LET words1 == Words(msg1)
             words2 == Words(msg2)
         IN  IF words1 = {} \/ words2 = {} THEN FALSE
             ELSE AtLeastThreshold(Cardinality(words1 \cap words2),
                                   Cardinality(words1 \cup words2))

(* A should_speak that stamps the time of every call, refused ones too *)
should_speak_stamping(message, t) ==
    IF t - last_time < DebounceSec /\ _is_similar(message, last_message)
    THEN [ret |-> FALSE, last_message |-> last_message, last_time |-> t]
    ELSE [ret |-> TRUE, last_message |-> message, last_time |-> t]

(* should_speak(message) at clock reading t: the result and the fields *)
should_speak(message, t) ==
    IF t - last_time < DebounceSec /\ _is_similar(message, last_message)
    THEN [ret |-> FALSE, last_message |-> last_message, last_time |-> last_time]
    ELSE [ret |-> TRUE, last_message |-> message, last_time |-> t]

IdleDebounce ==
    /\ last_message = EmptyMessage
    /\ last_time = 0
    /\ now = 0
    /\ d_message = EmptyMessage
    /\ d_ret = FALSE
    /\ suppressed = 0
    /\ reallowed = FALSE

(* A fresh DebounceManager.  The clock starts at 0 and may tick before the  *)
(* first call, so the first call sees readings below and above debounce_sec *)
InitDebounce ==
    /\ last_message = EmptyMessage
    /\ last_time = 0
    /\ now = 0
    /\ d_message = EmptyMessage
    /\ d_ret = FALSE
    /\ suppressed = 0
    /\ reallowed = FALSE

(* One call of should_speak with a text *)
SpeakWith(message) ==
      \E R \in {should_speak(message, now)} :
        /\ last_message' = R.last_message
        /\ last_time' = R.last_time
        /\ d_message' = message
        /\ d_ret' = R.ret
        /\ suppressed' = IF R.ret THEN 0
                         ELSE IF suppressed < MaxSuppressed THEN suppressed + 1
                         ELSE suppressed
        /\ reallowed' = (/\ R.ret
                          /\ message = last_message
                          /\ suppressed > 0
                          /\ now - last_time = DebounceSec)
        /\ UNCHANGED now

(* One call of should_speak *)
ShouldSpeak == \E message \in Messages : SpeakWith(message)

(* Half a second passes *)
Tick ==
    /\ now < MaxTime
    /\ now' = now + 1
    /\ UNCHANGED <<last_message, last_time, d_message, d_ret, suppressed, reallowed>>

----------------------------------------------------------------------------
(* DepthCalibrator (calibration.py).  Pixels and depths are whole numbers  *)
(* here; a converted depth is the exact fraction <<n, d>> with d > 0 of    *)
(* the value the source computes in floating point.                        *)

MaxPix == 5               \* largest pixel row of a calibration point
MaxFt == 3                \* largest depth of a calibration point

Rat(n, d) == IF d < 0 THEN <<0 - n, 0 - d>> ELSE <<n, d>>

RatLess(a, b) == a[1] * b[2] < b[1] * a[2]

RatEq(a, b) == a[1] * b[2] = b[1] * a[2]

(* Python's min(a, b) and max(a, b): the first argument wins a tie *)
PyMin(a, b) == IF RatLess(b, a) THEN b ELSE a

PyMax(a, b) == IF RatLess(a, b) THEN b ELSE a

(* the fallback of _load_calibration *)
DefaultCalibration == [pix_top |-> 50, pix_bot |-> 650, ft_top |-> 0, ft_bot |-> 100]

Calibrations ==
    [pix_top : 0..MaxPix, pix_bot : 0..MaxPix, ft_top : 0..MaxFt, ft_bot : 0..MaxFt]

(* max(ft_top, min(ft_bot, depth)) *)
Clamp(cal, depth) == PyMax(<<cal.ft_top, 1>>, PyMin(<<cal.ft_bot, 1>>, depth))

pixel_to_depth(cal, pixel_y) ==
    IF cal.pix_bot = cal.pix_top THEN <<cal.ft_top, 1>>
    ELSE Clamp(cal, Rat(cal.ft_top * (cal.pix_bot - cal.pix_top)
                          + (pixel_y - cal.pix_top) * (cal.ft_bot - cal.ft_top),
                        cal.pix_bot - cal.pix_top))

(* A conversion that drops the pix_top offset *)
depth_to_pixel_no_offset(cal, depth_ft) ==
    IF cal.ft_bot = cal.ft_top THEN cal.pix_top
    ELSE LET pixel == Rat((depth_ft - cal.ft_top) * (cal.pix_bot - cal.pix_top),
                          cal.ft_bot - cal.ft_top)
         IN  PyInt(pixel[1], pixel[2])

(* int(pix_top + ratio * (pix_bot - pix_top)) *)
depth_to_pixel(cal, depth_ft) ==
    IF cal.ft_bot = cal.ft_top THEN cal.pix_top
    ELSE LET pixel == Rat(cal.pix_top * (cal.ft_bot - cal.ft_top)
                            + (depth_ft - cal.ft_top) * (cal.pix_bot - cal.pix_top),
                          cal.ft_bot - cal.ft_top)
         IN  PyInt(pixel[1], pixel[2])

(* the mappings an operator enters in the model of calibrate_interactive *)
EnteredCalibrations ==
    [pix_top : {0, MaxPix}, pix_bot : {0, MaxPix}, ft_top : {0, MaxFt}, ft_bot : {0, MaxFt}]

(* The config file: it cannot be read or parsed ("unreadable"), it is      *)
(* empty ("empty", yaml.safe_load gives None) or it holds a mapping that   *)
(* has a depth_map entry or not.  yaml.dump and yaml.safe_load give back   *)
(* the numbers they are given.                                             *)
Unreadable == [kind |-> "unreadable"]

EmptyFile == [kind |-> "empty"]

ConfigWithout == [kind |-> "config", has_map |-> FALSE, depth_map |-> DefaultCalibration]

ConfigWith(cal) == [kind |-> "config", has_map |-> TRUE, depth_map |-> cal]

(* _load_calibration: config.get('depth_map', default); any exception      *)
(* (no file, bad YAML, None.get) gives the default                         *)
_load_calibration(file) ==
    IF file.kind = "config" /\ file.has_map THEN file.depth_map
    ELSE DefaultCalibration

(* _save_calibration.  outcome says how far the write gets: "ok", "open"   *)
(* (opening for writing raises, the file is untouched) or "dump" (the file *)
(* was truncated and writing raises).  Reading an unreadable file raises   *)
(* before anything is written; every exception is caught and printed.      *)
_save_calibration(file, cal, outcome) ==
    IF file.kind = "unreadable" THEN file
    ELSE IF outcome = "open" THEN file
    ELSE IF outcome = "dump" THEN EmptyFile
    ELSE ConfigWith(cal)

IdleCalibrator ==
    /\ calibration_data = DefaultCalibration
    /\ store = ConfigWithout
    /\ cal_ret = <<>>
    /\ confirmed = <<>>
    /\ c_pixel_y = 0
    /\ c_depth_ft = 0
    /\ c_pc = "done"
    /\ c_depth = <<0, 1>>
    /\ c_pixel = 0
    /\ c_round = <<0, 1>>

(* A calibrator with some mapping, about to convert a pixel and a depth *)
InitConvert ==
    /\ calibration_data \in Calibrations
    /\ store = ConfigWithout
    /\ cal_ret = <<>>
    /\ confirmed = <<>>
    /\ c_pixel_y \in (0 - 1)..(MaxPix + 1)
    /\ c_depth_ft \in 0..MaxFt
    /\ c_pc = "call"
    /\ c_depth = <<0, 1>>
    /\ c_pixel = 0
    /\ c_round = <<0, 1>>

Convert ==
    /\ c_pc = "call"
    /\ c_depth' = pixel_to_depth(calibration_data, c_pixel_y)
    /\ c_pixel' = depth_to_pixel(calibration_data, c_depth_ft)
    /\ c_round' = pixel_to_depth(calibration_data,
                                 depth_to_pixel(calibration_data, c_depth_ft))
    /\ c_pc' = "done"
    /\ UNCHANGED <<calibration_data, store, cal_ret, confirmed, c_pixel_y, c_depth_ft>>

(* DepthCalibrator.__init__ on some config file *)
InitDurable ==
    /\ store \in {Unreadable, EmptyFile, ConfigWithout}
                   \cup {ConfigWith(cal) : cal \in {DefaultCalibration}}
    /\ calibration_data = _load_calibration(store)
    /\ cal_ret = <<>>
    /\ confirmed = <<>>
    /\ c_pixel_y = 0
    /\ c_depth_ft = 0
    /\ c_pc = "done"
    /\ c_depth = <<0, 1>>
    /\ c_pixel = 0
    /\ c_round = <<0, 1>>

(* calibrate_interactive: ESC before two clicks ("cancel") or text that    *)
(* float() refuses ("invalid") return False and change nothing; otherwise  *)
(* the mapping is set, saved and True is returned.                         *)
CalibrateInteractive ==
    \E how \in {"cancel", "invalid", "entered"} :
      \E cal \in EnteredCalibrations :
        \E outcome \in {"ok", "open", "dump"} :
          IF how = "entered"
          THEN /\ calibration_data' = cal
               /\ store' = _save_calibration(store, cal, outcome)
               /\ cal_ret' = <<TRUE>>
               /\ confirmed' = <<cal>>
               /\ UNCHANGED <<c_pixel_y, c_depth_ft, c_pc, c_depth, c_pixel, c_round>>
          ELSE /\ cal_ret' = <<FALSE>>
               /\ UNCHANGED <<calibration_data, store, confirmed, c_pixel_y, c_depth_ft, c_pc,
                              c_depth, c_pixel, c_round>>

(* The process ends and a new DepthCalibrator is built on the same path *)
Restart ==
    /\ calibration_data' = _load_calibration(store)
    /\ cal_ret' = <<>>
    /\ UNCHANGED <<store, confirmed, c_pixel_y, c_depth_ft, c_pc, c_depth, c_pixel, c_round>>

----------------------------------------------------------------------------
(* cluster_detections (metrics.py:295-358).  A detection here carries all  *)
(* the fields of Detection; density, tightness and the two centroid        *)
(* coordinates are fractions <<n, d>> because a merged detection gets      *)
(* their means.                                                            *)

MaxCluster == 3           \* longest detection list given to cluster_detections
MaxMerge == 11            \* largest merge_distance

ClusterPoints == {<<0, 0>>, <<3, 0>>, <<0, 4>>, <<6, 8>>}

(* Detection(bbox, area, density, tightness, centroid) for a blob at p *)
BlobAt(p) ==
    [bbox |-> <<p[1], p[2], 2 + p[1], 2 + p[2]>>,
     area |-> 100 * (1 + p[1] + p[2]),
     density |-> <<100 + 10 * p[1], 1>>,
     tightness |-> <<50 + p[2], 1>>,
     centroid |-> <<<<p[1], 1>>, <<p[2], 1>>>>]

ClusterInputs ==
    UNION {[1..n -> {BlobAt(p) : p \in ClusterPoints}] : n \in 0..MaxCluster}

RECURSIVE SumSeq(_)
SumSeq(s) == IF s = <<>> THEN 0 ELSE s[1] + SumSeq(Tail(s))

MinSeq(s) == CHOOSE m \in {s[k] : k \in 1..Len(s)} : \A k \in 1..Len(s) : m <= s[k]

MaxSeq(s) == CHOOSE m \in {s[k] : k \in 1..Len(s)} : \A k \in 1..Len(s) : m >= s[k]

(* np.mean of fractions that share a denominator *)
FracMean(fracs) ==
    <<SumSeq([k \in 1..Len(fracs) |-> fracs[k][1]]), fracs[1][2] * Len(fracs)>>

(* the sum of one centroid coordinate (axis 1 or 2) over a cluster of      *)
(* input detections, whose coordinates are whole                           *)
CentroidSum(cluster, axis) ==
    SumSeq([k \in 1..Len(cluster) |-> cluster[k].centroid[axis][1]])

(* distance < merge_distance between the sums, not the means *)
NearBySums(c1, c2, merge_distance) ==
    LET dx == CentroidSum(c1, 1) - CentroidSum(c2, 1)
        dy == CentroidSum(c1, 2) - CentroidSum(c2, 2)
    IN  dx * dx + dy * dy < merge_distance * merge_distance

(* np.linalg.norm(c1 - c2) < merge_distance for the mean centroids c1, c2  *)
(* of two clusters                                                         *)
Near(c1, c2, merge_distance) ==
    LET n1 == Len(c1)
        n2 == Len(c2)
        dx == CentroidSum(c1, 1) * n2 - CentroidSum(c2, 1) * n1
        dy == CentroidSum(c1, 2) * n2 - CentroidSum(c2, 2) * n1
    IN  dx * dx + dy * dy < merge_distance * merge_distance * n1 * n1 * n2 * n2

(* pairs of neighbours in the list only *)
NearPairsAdjacent(clusters, merge_distance) ==
    {ij \in (1..Len(clusters)) \X (1..Len(clusters)) :
        ij[1] + 1 = ij[2] /\ Near(clusters[ij[1]], clusters[ij[2]], merge_distance)}

(* the pairs the two for loops visit, and the first of them that is near *)
NearPairs(clusters, merge_distance) ==
    {ij \in (1..Len(clusters)) \X (1..Len(clusters)) :
        ij[1] < ij[2] /\ Near(clusters[ij[1]], clusters[ij[2]], merge_distance)}

FirstPair(pairs) ==
    CHOOSE ij \in pairs :
        \A kl \in pairs : ij[1] < kl[1] \/ (ij[1] = kl[1] /\ ij[2] <= kl[2])

(* a merge that also drops the last cluster of the list *)
MergePairDroppingLast(clusters, i, j) ==
    [k \in 1..(IF Len(clusters) > 2 THEN Len(clusters) - 2 ELSE 1) |->
        IF k = i THEN clusters[i] \o clusters[j]
        ELSE IF k < j THEN clusters[k] ELSE clusters[k + 1]]

(* clusters[i].extend(clusters[j]); del clusters[j] *)
MergePair(clusters, i, j) ==
    [k \in 1..(Len(clusters) - 1) |->
        IF k = i THEN clusters[i] \o clusters[j]
        ELSE IF k < j THEN clusters[k] ELSE clusters[k + 1]]

(* the while True loop; gives the clusters and the number of merges *)
RECURSIVE MergeLoop(_, _, _)
MergeLoop(clusters, merge_distance, merges) ==
    LET pairs == NearPairs(clusters, merge_distance)
    IN  IF pairs = {} THEN [clusters |-> clusters, merges |-> merges]
        ELSE LET ij == FirstPair(pairs)
             IN  MergeLoop(MergePair(clusters, ij[1], ij[2]), merge_distance, merges + 1)

(* the Detection built for a cluster of several detections *)
MergedDetection(cluster) ==
    LET n == Len(cluster)
        x1 == MinSeq([k \in 1..n |-> cluster[k].bbox[1]])
        y1 == MinSeq([k \in 1..n |-> cluster[k].bbox[2]])
        x2 == MaxSeq([k \in 1..n |-> cluster[k].bbox[1] + cluster[k].bbox[3]])
        y2 == MaxSeq([k \in 1..n |-> cluster[k].bbox[2] + cluster[k].bbox[4]])
    IN  [bbox |-> <<x1, y1, x2 - x1, y2 - y1>>,
         area |-> SumSeq([k \in 1..n |-> cluster[k].area]),
         density |-> FracMean([k \in 1..n |-> cluster[k].density]),
         tightness |-> FracMean([k \in 1..n |-> cluster[k].tightness]),
         centroid |-> <<FracMean([k \in 1..n |-> cluster[k].centroid[1]]),
                        FracMean([k \in 1..n |-> cluster[k].centroid[2]])>>]

cluster_detections(detections, merge_distance) ==
    IF Len(detections) <= 1
    THEN [ret |-> detections, merges |-> 0,
          clusters |-> [k \in 1..Len(detections) |-> <<detections[k]>>]]
    ELSE LET start == [k \in 1..Len(detections) |-> <<detections[k]>>]
             loop == MergeLoop(start, merge_distance, 0)
         IN  [ret |-> [k \in 1..Len(loop.clusters) |->
                          IF Len(loop.clusters[k]) = 1 THEN loop.clusters[k][1]
                          ELSE MergedDetection(loop.clusters[k])],
              merges |-> loop.merges,
              clusters |-> loop.clusters]

IdleCluster ==
    /\ cl_detections = <<>>
    /\ cl_merge_distance = 0
    /\ cl_pc = "done"
    /\ cl_ret = <<>>
    /\ cl_merges = 0
    /\ cl_clusters = <<>>

InitCluster ==
    /\ cl_detections \in ClusterInputs
    /\ cl_merge_distance \in 0..MaxMerge
    /\ cl_pc = "call"
    /\ cl_ret = <<>>
    /\ cl_merges = 0
    /\ cl_clusters = <<>>

ClusterDetections ==
    /\ cl_pc = "call"
    /\ \E R \in {cluster_detections(cl_detections, cl_merge_distance)} :
          /\ cl_ret' = R.ret
          /\ cl_merges' = R.merges
          /\ cl_clusters' = R.clusters
    /\ cl_pc' = "done"
    /\ UNCHANGED <<cl_detections, cl_merge_distance>>

----------------------------------------------------------------------------
(* The recommendation engine: SonarAssist._generate_recommendation         *)
(* (app.py:259-311) and VideoSonarAnalyzer._generate_recommendation        *)
(* (video_analyzer.py:206-243).  Tightness, density and confidences are    *)
(* fractions <<n, d>>; a cue is the sequence of its words.                 *)

MaxRecDets == 2           \* longest detection list given to the engine

NoResult == <<>>

NoCue == <<>>

(* Detection(bbox, area, density, tightness, centroid) of a mark whose box *)
(* starts at row y *)
Mark(y, area, density, tightness) ==
    [bbox |-> <<0, y, 10, 10>>,
     area |-> area,
     density |-> <<density, 1>>,
     tightness |-> <<tightness, 100>>,
     centroid |-> <<<<5, 1>>, <<y + 5, 1>>>>]

(* marks of the three sizes, at rows whose depths are 0.5, 1.5 and 10 ft *)
(* under the default calibration *)
Marks ==
    {Mark(48, 900, d, t) : d \in {60, 130, 200}, t \in {40, 90}}
      \cup {Mark(54, 1000, d, t) : d \in {60, 130, 200}, t \in {40, 90}}
      \cup {Mark(105, 5000, d, t) : d \in {60, 130, 200}, t \in {40, 90}}

RecInputs == UNION {[1..n -> Marks] : n \in 0..MaxRecDets}

GroqResults ==
    {NoResult} \cup
    {<<[class |-> c, confidence |-> <<k, 100>>]>> :
        c \in {"school", "debris", "thermocline", "unknown"}, k \in {60, 61}}

(* config['cv']['density_thr'], config['decision']['tight_school_compactness'] *)
(* and config['speech']['min_confidence'] *)
Configs ==
    [density_thr : {<<140, 1>>},
     tight_school_compactness : {<<50, 100>>, <<90, 100>>},
     min_confidence : {<<20, 100>>, <<40, 100>>}]

RatMul(a, b) == <<a[1] * b[1], a[2] * b[2]>>

(* Detection.mid_y *)
mid_y(d) == d.bbox[2] + (d.bbox[4] \div 2)

calculate_school_size(d) ==
    IF d.area < 1000 THEN "small"
    ELSE IF d.area < 5000 THEN "medium"
    ELSE "large"

classify_density(density, config) ==
    IF RatLess(density, RatMul(config.density_thr, <<7, 10>>)) THEN "sparse"
    ELSE IF RatLess(density, config.density_thr) THEN "moderate"
    ELSE "dense"

(* str.capitalize on the density classes *)
Capitalize(s) ==
    IF s = "sparse" THEN "Sparse" ELSE IF s = "moderate" THEN "Moderate" ELSE "Dense"

(* a key that leaves tightness out *)
ScoreByArea(d) == <<d.area, 1>>

(* the key of max: d.area * d.tightness *)
Score(d) == <<d.area * d.tightness[1], d.tightness[2]>>

(* max(detections, key=...): the first of the detections with the largest key *)
RECURSIVE BestDetection(_)
BestDetection(detections) ==
    IF Len(detections) = 1 THEN detections[1]
    ELSE LET rest == BestDetection(Tail(detections))
         IN  IF RatLess(Score(detections[1]), Score(rest)) THEN rest ELSE detections[1]

(* format(depth, '.0f'): to the nearest whole number, halves to the even one *)
RoundHalfEven(x) ==
    LET q == x[1] \div x[2]
        r == x[1] % x[2]
    IN  IF 2 * r < x[2] THEN q
        ELSE IF 2 * r > x[2] THEN q + 1
        ELSE IF q % 2 = 0 THEN q ELSE q + 1

FormatFeet(depth) == ToString(RoundHalfEven(depth))

(* groq_result['confidence'] >= 0.6 *)
DismissAtLeast(confidence) == ~RatLess(confidence, <<60, 100>>)

(* groq_result['confidence'] > 0.6 *)
Dismiss(confidence) == RatLess(<<60, 100>>, confidence)

(* the part the two functions have word for word in common: the dismissive *)
(* cue, or the best detection and what is computed from it                 *)
Dismissive(groq_result) ==
    /\ groq_result # NoResult
    /\ groq_result[1].class \in {"debris", "thermocline"}
    /\ Dismiss(groq_result[1].confidence)

DismissiveCue(groq_result) ==
    <<"Likely", groq_result[1].class, "-", "ignore", "for", "now.">>

Scored(detections, config, cal) ==
    LET best_detection == BestDetection(detections)
        confidence == RatMul(best_detection.tightness,
                             <<best_detection.density[1], best_detection.density[2] * 255>>)
    IN  [size |-> calculate_school_size(best_detection),
         density_class |-> classify_density(best_detection.density, config),
         depth_ft |-> FormatFeet(pixel_to_depth(cal, mid_y(best_detection))),
         tightness_desc |->
             IF ~RatLess(best_detection.tightness, config.tight_school_compactness)
             THEN "tight" ELSE "scattered",
         speak |-> ~RatLess(confidence, config.min_confidence)]

DropAndHold(depth_ft) ==
    <<"Large,", "tight", "school", "around", depth_ft, "feet.",
      "Drop", "to", depth_ft, "and", "hold.">>

(* SonarAssist._generate_recommendation *)
_generate_recommendation(detections, groq_result, config, cal) ==
    IF detections = <<>> THEN NoCue
    ELSE IF Dismissive(groq_result) THEN DismissiveCue(groq_result)
    ELSE LET s == Scored(detections, config, cal)
         IN  IF ~s.speak THEN NoCue
             ELSE IF s.size = "large" /\ s.tightness_desc = "tight"
                  THEN DropAndHold(s.depth_ft)
             ELSE IF s.size \in {"medium", "large"}
                  THEN <<"School", "near", s.depth_ft, "feet.",
                         Capitalize(s.density_class), "density.",
                         "Troll", "through", s.depth_ft, "feet.">>
             ELSE <<"Small", "mark", "at", s.depth_ft, "feet.", "Worth", "checking.">>

(* VideoSonarAnalyzer._generate_recommendation *)
video_generate_recommendation(detections, groq_result, config, cal) ==
    IF detections = <<>> THEN NoCue
    ELSE IF Dismissive(groq_result) THEN DismissiveCue(groq_result)
    ELSE LET s == Scored(detections, config, cal)
         IN  IF ~s.speak THEN NoCue
             ELSE IF s.size = "large" /\ s.tightness_desc = "tight"
                  THEN DropAndHold(s.depth_ft)
             ELSE IF s.size \in {"medium", "large"}
                  THEN <<"School", "near", s.depth_ft, "feet.",
                         Capitalize(s.density_class), "density.">>
             ELSE <<"Small", "mark", "at", s.depth_ft, "feet.">>

IdleRecommend ==
    /\ r_detections = <<>>
    /\ r_groq_result = NoResult
    /\ r_config = [density_thr |-> <<140, 1>>,
                   tight_school_compactness |-> <<50, 100>>,
                   min_confidence |-> <<20, 100>>]
    /\ r_pc = "done"
    /\ r_live = NoCue
    /\ r_video = NoCue

InitRecommend ==
    /\ r_detections \in RecInputs
    /\ r_groq_result \in GroqResults
    /\ r_config \in Configs
    /\ r_pc = "call"
    /\ r_live = NoCue
    /\ r_video = NoCue

GenerateRecommendation ==
    /\ r_pc = "call"
    /\ r_live' = _generate_recommendation(r_detections, r_groq_result, r_config,
                                          calibration_data)
    /\ r_video' = video_generate_recommendation(r_detections, r_groq_result, r_config,
                                                calibration_data)
    /\ r_pc' = "done"
    /\ UNCHANGED <<r_detections, r_groq_result, r_config>>

----------------------------------------------------------------------------
(* The live loop, SonarAssist.run (app.py:395-462).  One action is one     *)
(* iteration of the while loop.  The image operations of process_frame     *)
(* are not modelled: a captured frame is given by the detections that      *)
(* cluster_detections leaves of it, and _generate_recommendation by some   *)
(* cue or None (None when there are no detections).                        *)

MaxLiveFrames == 2        \* iterations that process a frame
MaxLiveTime == 2          \* half seconds that pass while the loop runs

NotCaptured == [kind |-> "paused", scene |-> <<>>]

NoFrame == [kind |-> "none", scene |-> <<>>]

Frame(pts) == [kind |-> "frame", scene |-> pts]

LiveScenes == UNION {[1..k -> Points] : k \in 0..1}

LiveCues == {NoCue, <<"drop", "to", "44", "and", "hold">>}

Keys == {"q", "esc", "p", "o"}

(* a test that lets every captured value through *)
IsNoneNever(captured) == FALSE

(* frame is None *)
IsNone(captured) == captured.kind = "none"

(* time.time() - self.last_fps_time >= 1.0, in half seconds *)
FpsWindowOver == now - last_fps_time >= 2

(* cv2.waitKey(1) and the branches on the key *)
HandleKey ==
    /\ pending_key' = "none"
    /\ running' = (pending_key \notin {"q", "esc"})
    /\ paused' = IF pending_key = "p" THEN ~paused ELSE paused
    /\ show_overlay' = IF pending_key = "o" THEN ~show_overlay ELSE show_overlay

(* if not self.paused: ... frame is None: sleep and continue *)
SkipCycle(captured) ==
    /\ l_frame' = captured
    /\ l_recommendation' = NoCue
    /\ l_speech' = NoCue
    /\ UNCHANGED <<running, paused, show_overlay, l_frame_count, l_fps, last_fps_time, pending_key>>
    /\ UNCHANGED <<trackerVars, debounceVars>>

(* process_frame, the speech request, the counters and the key handling *)
ProcessCycle(captured) ==
    /\ l_frame' = captured
    /\ UpdateWith(captured.scene)
    /\ \E recommendation \in (IF captured.scene = <<>> THEN {NoCue} ELSE LiveCues) :
          /\ l_recommendation' = recommendation
          /\ IF recommendation # NoCue
             THEN /\ SpeakWith(recommendation)
                  /\ l_speech' = IF d_ret' THEN recommendation ELSE NoCue
             ELSE /\ l_speech' = NoCue
                  /\ UNCHANGED debounceVars
    /\ IF FpsWindowOver
       THEN /\ l_fps' = <<2 * (l_frame_count + 1), now - last_fps_time>>
            /\ l_frame_count' = 0
            /\ last_fps_time' = now
       ELSE /\ l_frame_count' = l_frame_count + 1
            /\ UNCHANGED <<l_fps, last_fps_time>>
    /\ HandleKey

(* an iteration while paused: only the key handling *)
PausedCycle ==
    /\ l_frame' = NotCaptured
    /\ l_recommendation' = NoCue
    /\ l_speech' = NoCue
    /\ HandleKey
    /\ UNCHANGED <<l_frame_count, l_fps, last_fps_time>>
    /\ UNCHANGED <<trackerVars, debounceVars>>

(* One iteration of the while self.running loop *)
Cycle ==
    /\ running
    /\ l_iteration' = (l_iteration + 1) % 2
    /\ IF paused THEN PausedCycle
       ELSE \E captured \in {NoFrame} \cup
                         {Frame(pts) : pts \in IF frame < MaxLiveFrames
                                               THEN LiveScenes ELSE {}} :
               IF IsNone(captured) THEN SkipCycle(captured) ELSE ProcessCycle(captured)

(* The user presses a key in the window *)
KeyPress ==
    /\ running
    /\ pending_key = "none"
    /\ pending_key' \in Keys
    /\ UNCHANGED <<running, paused, show_overlay, l_frame_count, l_fps, last_fps_time,
                   l_iteration, l_frame, l_recommendation, l_speech>>

(* Half a second passes while the loop runs *)
LiveTick ==
    /\ running
    /\ now < MaxLiveTime
    /\ Tick

IdleLive ==
    /\ running = FALSE
    /\ paused = FALSE
    /\ show_overlay = TRUE
    /\ l_frame_count = 0
    /\ l_fps = <<0, 1>>
    /\ last_fps_time = 0
    /\ pending_key = "none"
    /\ l_iteration = 0
    /\ l_frame = NotCaptured
    /\ l_recommendation = NoCue
    /\ l_speech = NoCue

(* run() has set running and is about to enter the loop *)
InitLive ==
    /\ running = TRUE
    /\ paused = FALSE
    /\ show_overlay = TRUE
    /\ l_frame_count = 0
    /\ l_fps = <<0, 1>>
    /\ last_fps_time = 0
    /\ pending_key = "none"
    /\ l_iteration = 0
    /\ l_frame = NotCaptured
    /\ l_recommendation = NoCue
    /\ l_speech = NoCue

----------------------------------------------------------------------------
(* GroqCV.analyze and _parse_response (groq_cv.py:78-252).  A JSON value   *)
(* is a record with its type t and its value v; the text of a reply is the *)
(* sequence of its "key: value" lines.                                     *)

JNull == [t |-> "null", v |-> <<>>]

JStr(lines) == [t |-> "str", v |-> lines]

JList(items) == [t |-> "list", v |-> items]

JDict(members) == [t |-> "dict", v |-> members]

Line(k, value) == [key |-> k, value |-> value]

(* a reply of the chat-completions shape with the given content *)
Reply(content) ==
    JDict([choices |-> JList(<<JDict([message |-> JDict([content |-> content])])>>)])

(* the bodies response.json() may give *)
Bodies ==
    << Reply(JStr(<<Line("class", "SCHOOL"), Line("confidence", "0.85")>>)),
       Reply(JStr(<<Line("class", "debris"), Line("confidence", "1.5")>>)),
       Reply(JStr(<<Line("class", "fish"), Line("confidence", "high")>>)),
       Reply(JStr(<<Line("confidence", "0.85")>>)),
       JDict([error |-> JStr(<<>>)]),
       JDict([choices |-> JList(<<>>)]),
       JDict([choices |-> JList(<<JDict([index |-> JNull])>>)]),
       JDict([choices |-> JList(<<JDict([message |-> JDict([role |-> JNull])])>>)]),
       JDict([choices |-> JNull]),
       JList(<<>>),
       Reply(JNull),
       JDict([choices |-> JList(<<JStr(<<>>)>>)]),
       JDict([choices |-> JList(<<JDict([message |-> JNull])>>)]) >>

Got(value) == [exc |-> "", val |-> value]

Raised(exc) == [exc |-> exc, val |-> JNull]

(* j[name] for a string name *)
GetItem(j, name) ==
    IF j.t = "dict"
    THEN IF name \in DOMAIN j.v THEN Got(j.v[name]) ELSE Raised("KeyError")
    ELSE Raised("TypeError")

(* j[0] *)
GetFirst(j) ==
    IF j.t = "list" THEN IF Len(j.v) > 0 THEN Got(j.v[1]) ELSE Raised("IndexError")
    ELSE IF j.t = "str" THEN IF Len(j.v) > 0 THEN Got(j) ELSE Raised("IndexError")
    ELSE IF j.t = "dict" THEN Raised("KeyError")
    ELSE Raised("TypeError")

(* result["choices"][0]["message"]["content"] *)
GetContent(body) ==
    LET choices == GetItem(body, "choices")
        first == GetFirst(choices.val)
        message == GetItem(first.val, "message")
    IN  IF choices.exc # "" THEN choices
        ELSE IF first.exc # "" THEN first
        ELSE IF message.exc # "" THEN message
        ELSE GetItem(message.val, "content")

Unknown == [kind |-> "return", class |-> "unknown", confidence |-> 0, exc |-> ""]

Raise(exc) == [kind |-> "raise", class |-> "", confidence |-> 0, exc |-> exc]

(* value.lower() on the labels that occur *)
LowerLabel(value) == IF value = "SCHOOL" THEN "school" ELSE value

(* float(value) in hundredths, <<>> when it raises ValueError *)
ParseFloat(value) ==
    IF value = "0.85" THEN <<85>> ELSE IF value = "1.5" THEN <<150>> ELSE <<>>

RECURSIVE ParseLines(_, _)
ParseLines(lines, parsed) ==
    IF lines = <<>> THEN parsed
    ELSE LET l == lines[1]
             conf == ParseFloat(l.value)
             next == IF l.key = "class"
                        /\ LowerLabel(l.value) \in {"school", "debris", "thermocline", "unknown"}
                     THEN [parsed EXCEPT !.class = LowerLabel(l.value)]
                     ELSE IF l.key = "confidence" /\ conf # <<>>
                     THEN [parsed EXCEPT !.confidence = Max(0, SetMin({100, conf[1]}))]
                     ELSE parsed
         IN  ParseLines(Tail(lines), next)

(* content.strip() needs a str *)
_parse_response(content) ==
    IF content.t # "str" THEN Raise("AttributeError")
    ELSE ParseLines(content.v, Unknown)

(* except (KeyError, IndexError) *)
Caught(exc) == exc \in {"KeyError", "IndexError"}

analyze(is_enabled, encode, request, status, body) ==
    IF ~is_enabled THEN Unknown
    ELSE IF encode = "error" THEN Unknown
    ELSE IF request # "ok" THEN Unknown
    ELSE IF status # 200 THEN Unknown
    ELSE LET content == GetContent(body)
             parsed == IF content.exc # "" THEN Raise(content.exc)
                       ELSE _parse_response(content.val)
         IN  IF parsed.kind = "raise" /\ Caught(parsed.exc) THEN Unknown ELSE parsed

IdleAnalyze ==
    /\ a_enabled = FALSE
    /\ a_encode = "ok"
    /\ a_request = "ok"
    /\ a_status = 200
    /\ a_body = 1
    /\ a_pc = "done"
    /\ a_outcome = Unknown
    /\ a_pipeline = "recommendation"

InitAnalyze ==
    /\ a_enabled \in BOOLEAN
    /\ a_encode \in {"ok", "error"}
    /\ a_request \in {"ok", "timeout", "error"}
    /\ a_status \in {200, 500}
    /\ a_body \in 1..Len(Bodies)
    /\ a_pc = "call"
    /\ a_outcome = Unknown
    /\ a_pipeline = "recommendation"

(* groq_result = await self.groq_cv.analyze(...) in process_frame, which   *)
(* has no handler of its own *)
Analyze ==
    /\ a_pc = "call"
    /\ a_outcome' = analyze(a_enabled, a_encode, a_request, a_status, Bodies[a_body])
    /\ a_pipeline' = IF a_outcome'.kind = "raise" THEN "exception" ELSE "recommendation"
    /\ a_pc' = "done"
    /\ UNCHANGED <<a_enabled, a_encode, a_request, a_status, a_body>>

----------------------------------------------------------------------------
(* VideoSonarAnalyzer.analyze_video (video_analyzer.py:74-158) as called   *)
(* by analyze_sonar_video (main.py:133-165) on the one video_analyzer of   *)
(* the process (main.py:38): enable_tts=False, enable_groq=True.  The      *)
(* requests are coroutines of one event loop: a coroutine runs until it    *)
(* suspends, which analyze_video does only inside groq_cv.analyze, or      *)
(* ends.  As in the live loop a frame is given by the detections that      *)
(* cluster_detections leaves of it and _generate_recommendation by some    *)
(* cue or None (None when there are no detections, video_analyzer.py:209). *)

MaxVideoFrames == 2       \* frames a video file holds at most

Requests == 1..2

VideoScenes == UNION {[1..k -> {<<0, 0>>, <<30, 40>>}] : k \in 0..1}

VideoCues == {NoCue, <<"Small", "mark", "at", "44", "feet.">>}

(* what CAP_PROP_FPS reports: 0 when the container does not tell *)
VideoFps == {0, 30}

(* sample rates that make a video of a few frames reach a sample frame *)
VideoRates == {15, 30}

(* the replies of the classifier explored: a well-formed one and one that  *)
(* makes analyze raise                                                     *)
VideoBodies == {1, 9}

(* cap.read() gives ret False: every frame of the file has been read *)
Exhausted(r) == v_frame_idx[r] = v_len[r]

(* a record whose frame number counts from 0 *)
VideoRecordZeroBased(frame_idx, rate, detections, recommendation) ==
    [frame |-> frame_idx - 1,
     timestamp |-> <<frame_idx, rate>>,
     detections |-> detections,
     recommendation |-> recommendation]

(* the dict appended to all_detections; timestamp is the fraction          *)
(* frame_idx / fps                                                         *)
VideoRecord(frame_idx, rate, detections, recommendation) ==
    [frame |-> frame_idx,
     timestamp |-> <<frame_idx, rate>>,
     detections |-> detections,
     recommendation |-> recommendation]

(* the condition under which _process_frame awaits groq_cv.analyze *)
QueriesGroq(frame_idx, detections) ==
    /\ v_use_groq
    /\ should_query(frame_idx, v_sample_rate_hz, 30, NoConfidence)
    /\ Len(detections) > 0

(* the exception leaves analyze_video through its finally block *)
VideoRaise(r) ==
    /\ v_pc' = [v_pc EXCEPT ![r] = "raised"]
    /\ v_turn' = 0
    /\ UNCHANGED <<all_detections, v_ret>>

(* the rest of the iteration once groq_result is known: the cue, the       *)
(* record (frame_idx / fps raises ZeroDivisionError for fps 0), and back   *)
(* to the top of the loop                                                  *)
FinishFrame(r, frame_idx, detections) ==
    \E recommendation \in (IF detections = <<>> THEN {NoCue} ELSE VideoCues) :
        IF v_fps[r] = 0
        THEN VideoRaise(r)
        ELSE /\ all_detections' =
                    [all_detections EXCEPT ![r] =
                        Append(@, VideoRecord(frame_idx, v_fps[r], detections, recommendation))]
             /\ v_pc' = [v_pc EXCEPT ![r] = "loop"]
             /\ v_turn' = r
             /\ UNCHANGED v_ret

(* ret is False: break, release, return all_detections *)
ReturnRecords(r) ==
    /\ v_pc' = [v_pc EXCEPT ![r] = "done"]
    /\ v_ret' = [v_ret EXCEPT ![r] = all_detections[r]]
    /\ v_turn' = 0
    /\ UNCHANGED <<v_frame_idx, v_read, all_detections, v_owner>>
    /\ UNCHANGED trackerVars

(* a frame was read: frame_idx += 1 and _process_frame up to the           *)
(* classifier call                                                         *)
ProcessVideoFrame(r, pts) ==
    /\ v_frame_idx' = [v_frame_idx EXCEPT ![r] = @ + 1]
    /\ v_read' = [v_read EXCEPT ![r] = Append(@, pts)]
    /\ UpdateWith(pts)
    /\ v_owner' = [id \in (DOMAIN v_owner) \cup
                          {issued'[i] : i \in (Len(issued) + 1)..Len(issued')} |->
                      IF id \in DOMAIN v_owner THEN v_owner[id] ELSE r]
    /\ IF QueriesGroq(v_frame_idx[r] + 1, pts)
       THEN /\ v_pc' = [v_pc EXCEPT ![r] = "groq"]
            /\ v_turn' = 0
            /\ UNCHANGED <<all_detections, v_ret>>
       ELSE FinishFrame(r, v_frame_idx[r] + 1, pts)

(* The request arrives and analyze_video opens the video; the requests    *)
(* are numbered in the order of their arrival                              *)
StartAnalysis ==
    \E r \in Requests :
        /\ v_turn = 0
        /\ v_pc[r] = "idle"
        /\ \A earlier \in 1..(r - 1) : v_pc[earlier] # "idle"
        /\ v_pc' = [v_pc EXCEPT ![r] = "loop"]
        /\ v_turn' = r
        /\ \E rate \in VideoFps : v_fps' = [v_fps EXCEPT ![r] = rate]
        /\ \E n \in 0..MaxVideoFrames : v_len' = [v_len EXCEPT ![r] = n]
        /\ UNCHANGED <<v_frame_idx, v_read, all_detections, v_ret, v_owner>>
        /\ UNCHANGED <<v_use_groq, v_sample_rate_hz>>

(* One iteration of the while True loop, up to the point where the         *)
(* coroutine suspends, or the exit from the loop                           *)
ReadFrame ==
    \E r \in Requests :
        /\ v_turn = r
        /\ v_pc[r] = "loop"
        /\ IF Exhausted(r) THEN ReturnRecords(r)
           ELSE \E pts \in VideoScenes : ProcessVideoFrame(r, pts)
        /\ UNCHANGED <<v_fps, v_len, v_use_groq, v_sample_rate_hz>>

(* The classifier call of a suspended request ends and its coroutine is    *)
(* resumed: analyze returns its result, or raises, and the iteration is    *)
(* carried to its end                                                      *)
GroqReply ==
    \E r \in Requests :
        /\ v_turn = 0
        /\ v_pc[r] = "groq"
        /\ \E request \in {"ok", "timeout"}, body \in VideoBodies :
              IF analyze(enabled, "ok", request, 200, Bodies[body]).kind = "raise"
              THEN VideoRaise(r)
              ELSE FinishFrame(r, v_frame_idx[r], v_read[r][Len(v_read[r])])
        /\ UNCHANGED <<v_fps, v_len, v_frame_idx, v_read, v_owner, v_use_groq, v_sample_rate_hz>>

IdleVideo ==
    /\ v_pc = [r \in Requests |-> "done"]
    /\ v_turn = 0
    /\ v_fps = [r \in Requests |-> 30]
    /\ v_len = [r \in Requests |-> 0]
    /\ v_frame_idx = [r \in Requests |-> 0]
    /\ v_read = [r \in Requests |-> <<>>]
    /\ all_detections = [r \in Requests |-> <<>>]
    /\ v_ret = [r \in Requests |-> <<>>]
    /\ v_owner = EmptyMap
    /\ v_use_groq = FALSE
    /\ v_sample_rate_hz = 30

(* the process has constructed video_analyzer and no request has arrived *)
InitVideo ==
    /\ v_pc = [r \in Requests |-> "idle"]
    /\ v_turn = 0
    /\ v_fps = [r \in Requests |-> 30]
    /\ v_len = [r \in Requests |-> 0]
    /\ v_frame_idx = [r \in Requests |-> 0]
    /\ v_read = [r \in Requests |-> <<>>]
    /\ all_detections = [r \in Requests |-> <<>>]
    /\ v_ret = [r \in Requests |-> <<>>]
    /\ v_owner = EmptyMap
    /\ v_use_groq \in BOOLEAN
    /\ v_sample_rate_hz \in (IF v_use_groq THEN VideoRates ELSE {30})

(* CentroidTracker.__init__ with config['tracking']['max_disappeared'] *)
InitVideoTracker ==
    /\ InitTracker
    /\ max_disappeared = MaxMaxDisappeared

(* GroqCV.__init__ with an API key configured (without one should_query   *)
(* is always False, as the sampled branch is with use_groq False)          *)
InitGroqClient ==
    /\ enabled = TRUE
    /\ q_frame_count = 0
    /\ q_sample_rate_hz = 1
    /\ q_fps = 0
    /\ q_cv_confidence = NoConfidence
    /\ q_pc = "done"
    /\ q_ret = FALSE

----------------------------------------------------------------------------
(* The live loop step by step.  SonarAssist.run awaits process_frame,      *)
(* which awaits groq_cv.analyze when the frame is sampled for the          *)
(* classifier (app.py:231-247): the coroutine of the loop is suspended     *)
(* there until analyze returns or raises.  Nothing in run or process_frame *)
(* handles an exception of analyze, _draw_overlay or cv2.imshow; the       *)
(* speak call runs as a task of its own (app.py:426-430), its outcome is   *)
(* drawn when the task is created.  Time is in half seconds, as for the    *)
(* debouncer.                                                              *)

MaxRunFrames == 3         \* frames the loop processes
MaxRunTime == 3           \* half seconds that pass while the loop runs

RunScenes == UNION {[1..k -> {<<0, 0>>}] : k \in 0..1}

(* target_fps and sample_rate_hz of the configuration file *)
RunTargetFps == {2}

RunSampleRates == {1}

(* how _draw_overlay and cv2.imshow end *)
OverlayOutcomes == {"ok", "draw_error", "show_error"}

(* how the speak task ends *)
VoiceOutcomes == {"spoken", "debounced", "disabled", "generate_error", "play_error"}

(* the outcomes in which speak prints the text (tts_elevenlabs.py:74, 91, 101) *)
VoiceFallbacks == {"disabled", "generate_error", "play_error"}

(* frame_time = 1.0 / target_fps, in half seconds *)
FrameTicks == 2 \div l_target_fps

(* should_query(frame_count=self.frame_count, sample_rate_hz=..., fps=self.fps): *)
(* self.fps is the fraction n/d, and int((n/d) / rate) = int(n / (d * rate))     *)
LiveShouldQuery ==
    should_query(l_frame_count, l_fps[2] * l_sample_rate_hz, l_fps[1], NoConfidence)

(* the exception leaves process_frame and run: the loop is over *)
AbortRun(cause) ==
    /\ l_pc' = cause
    /\ UNCHANGED <<running, paused, show_overlay, l_frame_count, l_fps, last_fps_time,
                   pending_key, l_resume>>

(* process_frame from _generate_recommendation on, and run from the speech *)
(* request to the frame-rate sleep                                         *)
RestOfIteration(pts, loop_start) ==
    \E recommendation \in (IF pts = <<>> THEN {NoCue} ELSE LiveCues),
       overlay \in OverlayOutcomes :
        /\ l_recommendation' = recommendation
        /\ IF overlay = "draw_error" /\ show_overlay
           THEN /\ AbortRun("draw_error")
                /\ l_speech' = NoCue
                /\ l_log' = NoCue
                /\ UNCHANGED debounceVars
           ELSE /\ IF recommendation # NoCue
                   THEN /\ SpeakWith(recommendation)
                        /\ l_speech' = IF d_ret' THEN recommendation ELSE NoCue
                        /\ \E voice \in VoiceOutcomes :
                              l_log' = IF d_ret' /\ voice \in VoiceFallbacks
                                       THEN recommendation ELSE NoCue
                   ELSE /\ l_speech' = NoCue
                        /\ l_log' = NoCue
                        /\ UNCHANGED debounceVars
                /\ IF overlay = "show_error"
                   THEN AbortRun("show_error")
                   ELSE /\ l_pc' = "loop"
                        /\ IF FpsWindowOver
                           THEN /\ l_fps' = <<2 * (l_frame_count + 1), now - last_fps_time>>
                                /\ l_frame_count' = 0
                                /\ last_fps_time' = now
                           ELSE /\ l_frame_count' = l_frame_count + 1
                                /\ UNCHANGED <<l_fps, last_fps_time>>
                        /\ HandleKey
                        /\ l_resume' = Max(now, loop_start + FrameTicks)

(* process_frame up to the classifier call *)
StartFrame(captured) ==
    /\ l_frame' = captured
    /\ l_loop_start' = now
    /\ UpdateWith(captured.scene)
    /\ \E query \in {l_use_groq /\ LiveShouldQuery /\ Len(captured.scene) > 0} :
          /\ l_queries' = Append(l_queries, query)
          /\ IF query
             THEN /\ l_pc' = "groq"
                  /\ UNCHANGED <<running, paused, show_overlay, l_frame_count, l_fps,
                                 last_fps_time, pending_key, l_recommendation, l_speech>>
                  /\ UNCHANGED <<l_log, l_resume>>
                  /\ UNCHANGED debounceVars
             ELSE RestOfIteration(captured.scene, now)

(* One iteration of the while self.running loop, from its top to its end   *)
(* or to the point where it suspends in the classifier call                *)
Iterate ==
    /\ running
    /\ l_pc = "loop"
    /\ now >= l_resume
    /\ l_iteration' = (l_iteration + 1) % 2
    /\ IF paused
       THEN /\ PausedCycle
            /\ l_resume' = now + FrameTicks
            /\ UNCHANGED <<l_pc, l_queries, l_log, l_loop_start>>
       ELSE \E captured \in {NoFrame} \cup
                         {Frame(pts) : pts \in IF Len(l_queries) < MaxRunFrames
                                               THEN RunScenes ELSE {}} :
               IF IsNone(captured)
               THEN /\ SkipCycle(captured)
                    /\ UNCHANGED <<l_pc, l_queries, l_log, l_loop_start, l_resume>>
               ELSE StartFrame(captured)
    /\ UNCHANGED <<l_use_groq, l_sample_rate_hz, l_target_fps>>

(* groq_cv.analyze ends and the loop's coroutine is resumed *)
ClassifierReply ==
    /\ l_pc = "groq"
    /\ \E request \in {"ok", "timeout"}, body \in VideoBodies :
          IF analyze(enabled, "ok", request, 200, Bodies[body]).kind = "raise"
          THEN /\ AbortRun("analyze_error")
               /\ UNCHANGED <<l_recommendation, l_speech, l_log>>
               /\ UNCHANGED debounceVars
          ELSE RestOfIteration(l_frame.scene, l_loop_start)
    /\ UNCHANGED <<l_iteration, l_frame, l_queries, l_loop_start>>
    /\ UNCHANGED <<l_use_groq, l_sample_rate_hz, l_target_fps>>

(* Half a second passes *)
RunTick ==
    /\ running
    /\ l_pc \in {"loop", "groq"}
    /\ now < MaxRunTime
    /\ Tick

IdleRun ==
    /\ l_pc = "loop"
    /\ l_queries = <<>>
    /\ l_log = NoCue
    /\ l_loop_start = 0
    /\ l_resume = 0
    /\ l_use_groq = FALSE
    /\ l_sample_rate_hz = 1
    /\ l_target_fps = 2

(* run() is about to enter the loop *)
InitRun ==
    /\ l_pc = "loop"
    /\ l_queries = <<>>
    /\ l_log = NoCue
    /\ l_loop_start = 0
    /\ l_resume = 0
    /\ l_use_groq \in BOOLEAN
    /\ l_sample_rate_hz \in RunSampleRates
    /\ l_target_fps \in RunTargetFps

----------------------------------------------------------------------------
(* Speech in the live loop (app.py:425-430): a recommendation accepted by  *)
(* the debouncer is handed to a task running TTSElevenLabs.speak           *)
(* (tts_elevenlabs.py:53-102) with the same debounce_sec.  The task runs   *)
(* up to its first await at once; it is in flight from there until         *)
(* _generate_audio and _play_audio have ended, with or without an error,   *)
(* which takes any length of time.                                         *)

MaxSpeechTime == 6        \* half seconds that pass

SpeechCues == { <<"drop", "to", "44", "and", "hold">>, <<"troll", "through", "37">> }

(* text in self.last_spoken and now - self.last_spoken[text] < debounce_sec *)
RecentlySpoken(text, t) ==
    text \in DOMAIN last_spoken /\ t - last_spoken[text] < DebounceSec

(* speak up to its first await: what it returns at once, or that it goes   *)
(* on to generate the audio                                                *)
speak(text, t) ==
    IF ~tts_enabled THEN "printed"
    ELSE IF RecentlySpoken(text, t) THEN "debounced"
    ELSE "generating"

(* The loop has a recommendation: should_speak, and the speak task if the  *)
(* debouncer accepts it                                                    *)
SpeechCue ==
    \E text \in SpeechCues :
        /\ SpeakWith(text)
        /\ IF d_ret' /\ speak(text, now) = "generating"
           THEN /\ last_spoken' = [m \in (DOMAIN last_spoken) \cup {text} |->
                                      IF m = text THEN now ELSE last_spoken[m]]
                /\ in_flight' = Append(in_flight, [text |-> text, started |-> now])
           ELSE UNCHANGED <<last_spoken, in_flight>>
        /\ UNCHANGED tts_enabled

(* A speak task ends: the audio was played, or generation or playback      *)
(* raised and the text was printed                                         *)
SpeechEnds ==
    \E i \in 1..Len(in_flight) :
        /\ in_flight' = [k \in 1..(Len(in_flight) - 1) |->
                            IF k < i THEN in_flight[k] ELSE in_flight[k + 1]]
        /\ UNCHANGED <<tts_enabled, last_spoken>>

(* Half a second passes *)
SpeechTick ==
    /\ now < MaxSpeechTime
    /\ Tick

IdleSpeech ==
    /\ tts_enabled = FALSE
    /\ last_spoken = EmptyMap
    /\ in_flight = <<>>

(* TTSElevenLabs.__init__ *)
InitSpeech ==
    /\ tts_enabled \in BOOLEAN
    /\ last_spoken = EmptyMap
    /\ in_flight = <<>>

----------------------------------------------------------------------------
(* Specifications *)

Init ==
    /\ InitTracker
    /\ IdleQuery
    /\ IdleDebounce
    /\ IdleCalibrator
    /\ IdleCluster
    /\ IdleRecommend
    /\ IdleLive
    /\ IdleAnalyze
    /\ IdleVideo
    /\ IdleRun
    /\ IdleSpeech

Next ==
    \/ Update /\ UNCHANGED <<queryVars, debounceVars, calVars, clusterVars, recVars, liveVars, analyzeVars, videoVars, runVars, speechVars>>

Spec == Init /\ [][Next]_vars

InitQ ==
    /\ IdleTracker
    /\ InitQuery
    /\ IdleDebounce
    /\ IdleCalibrator
    /\ IdleCluster
    /\ IdleRecommend
    /\ IdleLive
    /\ IdleAnalyze
    /\ IdleVideo
    /\ IdleRun
    /\ IdleSpeech

NextQ ==
    \/ ShouldQuery /\ UNCHANGED <<trackerVars, debounceVars, calVars, clusterVars, recVars, liveVars, analyzeVars, videoVars, runVars, speechVars>>

SpecQuery == InitQ /\ [][NextQ]_vars

InitD ==
    /\ IdleTracker
    /\ IdleQuery
    /\ InitDebounce
    /\ IdleCalibrator
    /\ IdleCluster
    /\ IdleRecommend
    /\ IdleLive
    /\ IdleAnalyze
    /\ IdleVideo
    /\ IdleRun
    /\ IdleSpeech

NextD ==
    \/ ShouldSpeak /\ UNCHANGED <<trackerVars, queryVars, calVars, clusterVars, recVars, liveVars, analyzeVars, videoVars, runVars, speechVars>>
    \/ Tick /\ UNCHANGED <<trackerVars, queryVars, calVars, clusterVars, recVars, liveVars, analyzeVars, videoVars, runVars, speechVars>>

SpecDebounce == InitD /\ [][NextD]_vars

InitC ==
    /\ IdleTracker
    /\ IdleQuery
    /\ IdleDebounce
    /\ InitConvert
    /\ IdleCluster
    /\ IdleRecommend
    /\ IdleLive
    /\ IdleAnalyze
    /\ IdleVideo
    /\ IdleRun
    /\ IdleSpeech

NextC ==
    \/ Convert /\ UNCHANGED <<trackerVars, queryVars, debounceVars, clusterVars, recVars, liveVars, analyzeVars, videoVars, runVars, speechVars>>

SpecCalib == InitC /\ [][NextC]_vars

InitS ==
    /\ IdleTracker
    /\ IdleQuery
    /\ IdleDebounce
    /\ InitDurable
    /\ IdleCluster
    /\ IdleRecommend
    /\ IdleLive
    /\ IdleAnalyze
    /\ IdleVideo
    /\ IdleRun
    /\ IdleSpeech

NextS ==
    \/ CalibrateInteractive /\ UNCHANGED <<trackerVars, queryVars, debounceVars, clusterVars, recVars, liveVars, analyzeVars, videoVars, runVars, speechVars>>
    \/ Restart /\ UNCHANGED <<trackerVars, queryVars, debounceVars, clusterVars, recVars, liveVars, analyzeVars, videoVars, runVars, speechVars>>

SpecDurable == InitS /\ [][NextS]_vars

InitCl ==
    /\ IdleTracker
    /\ IdleQuery
    /\ IdleDebounce
    /\ IdleCalibrator
    /\ InitCluster
    /\ IdleRecommend
    /\ IdleLive
    /\ IdleAnalyze
    /\ IdleVideo
    /\ IdleRun
    /\ IdleSpeech

NextCl ==
    \/ ClusterDetections /\ UNCHANGED <<trackerVars, queryVars, debounceVars, calVars, recVars, liveVars, analyzeVars, videoVars, runVars, speechVars>>

SpecCluster == InitCl /\ [][NextCl]_vars

InitR ==
    /\ IdleTracker
    /\ IdleQuery
    /\ IdleDebounce
    /\ IdleCalibrator
    /\ IdleCluster
    /\ InitRecommend
    /\ IdleLive
    /\ IdleAnalyze
    /\ IdleVideo
    /\ IdleRun
    /\ IdleSpeech

NextR ==
    \/ GenerateRecommendation /\ UNCHANGED <<trackerVars, queryVars, debounceVars, calVars, clusterVars, liveVars, analyzeVars, videoVars, runVars, speechVars>>

SpecRecommend == InitR /\ [][NextR]_vars

InitL ==
    /\ InitTracker
    /\ IdleQuery
    /\ InitDebounce
    /\ IdleCalibrator
    /\ IdleCluster
    /\ IdleRecommend
    /\ InitLive
    /\ IdleAnalyze
    /\ IdleVideo
    /\ IdleRun
    /\ IdleSpeech

NextL ==
    \/ Cycle /\ UNCHANGED <<queryVars, calVars, clusterVars, recVars, analyzeVars, videoVars, runVars, speechVars>>
    \/ KeyPress /\ UNCHANGED <<trackerVars, queryVars, debounceVars, calVars, clusterVars, recVars, analyzeVars, videoVars, runVars, speechVars>>
    \/ LiveTick /\ UNCHANGED <<trackerVars, queryVars, calVars, clusterVars, recVars, liveVars, analyzeVars, videoVars, runVars, speechVars>>

SpecLive == InitL /\ [][NextL]_vars

SpecLiveFair == SpecLive /\ WF_vars(Cycle /\ UNCHANGED <<queryVars, calVars, clusterVars, recVars, analyzeVars, videoVars, runVars, speechVars>>)

InitA ==
    /\ IdleTracker
    /\ IdleQuery
    /\ IdleDebounce
    /\ IdleCalibrator
    /\ IdleCluster
    /\ IdleRecommend
    /\ IdleLive
    /\ InitAnalyze
    /\ IdleVideo
    /\ IdleRun
    /\ IdleSpeech

NextA ==
    \/ Analyze /\ UNCHANGED <<trackerVars, queryVars, debounceVars, calVars, clusterVars, recVars, liveVars, videoVars, runVars, speechVars>>

SpecAnalyze == InitA /\ [][NextA]_vars

InitV ==
    /\ InitVideoTracker
    /\ InitGroqClient
    /\ IdleDebounce
    /\ IdleCalibrator
    /\ IdleCluster
    /\ IdleRecommend
    /\ IdleLive
    /\ IdleAnalyze
    /\ InitVideo
    /\ IdleRun
    /\ IdleSpeech

NextV ==
    \/ StartAnalysis /\ UNCHANGED <<trackerVars, queryVars, debounceVars, calVars, clusterVars, recVars, liveVars, analyzeVars, runVars, speechVars>>
    \/ ReadFrame /\ UNCHANGED <<queryVars, debounceVars, calVars, clusterVars, recVars, liveVars, analyzeVars, runVars, speechVars>>
    \/ GroqReply /\ UNCHANGED <<trackerVars, queryVars, debounceVars, calVars, clusterVars, recVars, liveVars, analyzeVars, runVars, speechVars>>

SpecVideo == InitV /\ [][NextV]_vars

InitRn ==
    /\ InitVideoTracker
    /\ InitGroqClient
    /\ InitDebounce
    /\ IdleCalibrator
    /\ IdleCluster
    /\ IdleRecommend
    /\ InitLive
    /\ IdleAnalyze
    /\ IdleVideo
    /\ InitRun
    /\ IdleSpeech

NextRn ==
    \/ Iterate /\ UNCHANGED <<queryVars, calVars, clusterVars, recVars, analyzeVars, videoVars, speechVars>>
    \/ ClassifierReply /\ UNCHANGED <<trackerVars, queryVars, calVars, clusterVars, recVars, analyzeVars, videoVars, speechVars>>
    \/ KeyPress /\ UNCHANGED <<trackerVars, queryVars, debounceVars, calVars, clusterVars, recVars, analyzeVars, videoVars, runVars, speechVars>>
    \/ RunTick /\ UNCHANGED <<trackerVars, queryVars, calVars, clusterVars, recVars, liveVars, analyzeVars, videoVars, runVars, speechVars>>

SpecRun == InitRn /\ [][NextRn]_vars

InitSp ==
    /\ IdleTracker
    /\ IdleQuery
    /\ InitDebounce
    /\ IdleCalibrator
    /\ IdleCluster
    /\ IdleRecommend
    /\ IdleLive
    /\ IdleAnalyze
    /\ IdleVideo
    /\ IdleRun
    /\ InitSpeech

NextSp ==
    \/ SpeechCue /\ UNCHANGED <<trackerVars, queryVars, calVars, clusterVars, recVars, liveVars, analyzeVars, videoVars, runVars>>
    \/ SpeechEnds /\ UNCHANGED <<trackerVars, queryVars, debounceVars, calVars, clusterVars, recVars, liveVars, analyzeVars, videoVars, runVars>>
    \/ SpeechTick /\ UNCHANGED <<trackerVars, queryVars, calVars, clusterVars, recVars, liveVars, analyzeVars, videoVars, runVars, speechVars>>

SpecSpeech == InitSp /\ [][NextSp]_vars

----------------------------------------------------------------------------
(* Properties of the tracker *)

Last(s) == s[Len(s)]

IssuedIds == {issued[i] : i \in 1..Len(issued)}

(* The track whose history starts with a detection of the last call *)
BornNow(id) ==
    /\ id \in DOMAIN objects
    /\ Len(detections_history[id]) = 1
    /\ detections_history[id][1].uid[1] = frame

(* C1: ids are handed out as 0, 1, 2, ... in this order, so each new id is *)
(* larger than every id handed out before and none is handed out twice;    *)
(* every track in the table holds an id that was handed out.               *)
C1_IdsSequentialNeverReused ==
    /\ \A i \in 1..Len(issued) : issued[i] = i - 1
    /\ next_object_id = Len(issued)
    /\ DOMAIN objects \subseteq IssuedIds

(* a track was registered after an older track had been removed *)
C1_Witness ==
    \E r \in DOMAIN removed_at : \E id \in DOMAIN objects :
        BornNow(id) /\ id > r /\ frame >= 2

(* C2: a track is in the table exactly as long as its run of consecutive   *)
(* unmatched update calls is at most max_disappeared; it leaves on miss    *)
(* number max_disappeared + 1, and a removed id never returns to the table *)
(* or to a returned map, so a detection at its old position gets a new id. *)
C2_RemovedOnMissAfterMax ==
    /\ \A id \in DOMAIN misses :
          /\ id \in DOMAIN objects <=> misses[id] <= max_disappeared
          /\ id \notin DOMAIN objects => misses[id] = max_disappeared + 1
    /\ DOMAIN removed_at = (DOMAIN misses) \ (DOMAIN objects)
    /\ \A r \in DOMAIN removed_at : r \notin DOMAIN result
    /\ \A r \in DOMAIN removed_at : \A id \in DOMAIN objects :
          (BornNow(id) /\ objects[id] = removed_at[r]) => id > r

(* a removed track's position is taken again by a track registered now,    *)
(* and the removal came from a frame that carried another detection        *)
C2_Witness ==
    \E r \in DOMAIN removed_at : \E id \in DOMAIN objects :
        /\ BornNow(id)
        /\ objects[id] = removed_at[r]
        /\ id > r + 1

(* C3: while every call carries one detection within max_distance of the   *)
(* previous one, every call returns one entry, always under id 0, and no   *)
(* second id is handed out.                                                *)
C3_SteadyDetectionOneTrack ==
    (steady /\ frame >= 1) =>
        /\ DOMAIN result = {0}
        /\ result[0] = last_dets[1]
        /\ issued = <<0>>

(* a detection that moved, by exactly max_distance on the last call *)
C3_Witness ==
    /\ steady
    /\ frame >= 3
    /\ Dist2(detections_history[0][frame - 1].centroid,
             detections_history[0][frame].centroid) = MaxDistance * MaxDistance

(* C4: a track that was in the table before an update has miss counter 0   *)
(* after it if it was matched, and its old counter plus one if it was not  *)
(* (a track whose counter would pass max_disappeared is removed instead);  *)
(* every counter in the table is between 0 and max_disappeared.            *)
C4_CounterStep ==
    \A id \in DOMAIN objects :
        IF id \in matched'
        THEN id \in DOMAIN disappeared' /\ disappeared'[id] = 0
        ELSE IF id \in DOMAIN disappeared'
             THEN disappeared'[id] = disappeared[id] + 1
             ELSE disappeared[id] + 1 > max_disappeared

C4_CounterRange ==
    /\ DOMAIN disappeared = DOMAIN objects
    /\ \A id \in DOMAIN disappeared :
          disappeared[id] >= 0 /\ disappeared[id] <= max_disappeared

C4_MissCounter == [][C4_CounterStep]_vars /\ []C4_CounterRange

(* an empty frame has aged a track, and a later match has reset another *)
C4_Witness ==
    /\ \E id \in DOMAIN objects : disappeared[id] = 1 /\ id \notin matched
    /\ \E id \in matched : Len(detections_history[id]) >= 2

(* C5: in a call with detections, a matched track takes one detection of   *)
(* the call, no farther than max_distance from where the track was; every  *)
(* detection of the call is the last detection of exactly one track, which *)
(* is either a matched track or a track registered for it; an unmatched    *)
(* track keeps its history and accrues a miss.                             *)
C5_Step ==
    Len(last_dets') > 0 =>
        LET dets == {last_dets'[i] : i \in 1..Len(last_dets')}
        IN  /\ matched' \subseteq DOMAIN objects
            /\ \A id \in matched' :
                  /\ id \in DOMAIN objects'
                  /\ Last(detections_history'[id]) \in dets
                  /\ detections_history'[id] =
                        Append(detections_history[id], Last(detections_history'[id]))
                  /\ objects'[id] = Last(detections_history'[id]).centroid
                  /\ Dist2(objects[id], objects'[id]) <= MaxDistance * MaxDistance
            /\ \A d \in dets :
                  Cardinality({id \in DOMAIN objects' :
                                  Last(detections_history'[id]) = d}) = 1
            /\ \A id \in (DOMAIN objects') \ (DOMAIN objects) :
                  /\ Len(detections_history'[id]) = 1
                  /\ detections_history'[id][1] \in dets
                  /\ objects'[id] = detections_history'[id][1].centroid
            /\ \A id \in (DOMAIN objects) \ matched' :
                  /\ misses'[id] = misses[id] + 1
                  /\ id \in DOMAIN objects' =>
                        /\ detections_history'[id] = detections_history[id]
                        /\ objects'[id] = objects[id]
            /\ Cardinality(DOMAIN objects') =
                  Cardinality(DOMAIN objects) + Len(last_dets')
                    - Cardinality(matched')
                    - Cardinality((DOMAIN objects) \ (DOMAIN objects'))

C5_OneToOneGatedMatching == [][C5_Step]_vars

(* two tracks were nearest to the same detection: one took it, the other   *)
(* accrued a miss, and the second detection of the call got a new track    *)
C5_Witness ==
    /\ Len(last_dets) = 2
    /\ Cardinality(matched) = 1
    /\ \E id \in DOMAIN objects : BornNow(id) /\ frame >= 2
    /\ \E id \in DOMAIN misses : id \notin matched /\ misses[id] >= 1
                                  /\ ~BornNow(id)

(* C6: the map update returns has the ids of the track table as its keys   *)
(* and maps each to the last detection of the track's history, after every *)
(* call, a call with no detections included.                               *)
C6_ResultIsTrackTable ==
    frame >= 1 =>
        /\ DOMAIN result = DOMAIN objects
        /\ \A id \in DOMAIN result : result[id] = Last(detections_history[id])

----------------------------------------------------------------------------
(* Properties of should_query, under SpecQuery *)

SuppliedAndBelow(c) == c # NoConfidence /\ c[1] < AmbiguityThreshold

(* C7: configured and with a positive rate, should_query is true exactly   *)
(* on frames whose index is a multiple of max(1, floor(fps / rate)) and on *)
(* frames with a supplied confidence below the threshold; not configured,  *)
(* it is false whatever the arguments.                                     *)
C7_SamplingPolicy ==
    q_pc = "done" =>
        /\ (enabled /\ q_sample_rate_hz > 0) =>
              (q_ret <=>
                 \/ q_frame_count % Max(1, q_fps \div q_sample_rate_hz) = 0
                 \/ SuppliedAndBelow(q_cv_confidence))
        /\ ~enabled => q_ret = FALSE

(* a frame between two sample frames is queried for its low confidence *)
C7_Witness ==
    /\ q_pc = "done"
    /\ enabled
    /\ q_sample_rate_hz > 0
    /\ q_fps \div q_sample_rate_hz >= 2
    /\ q_frame_count % (q_fps \div q_sample_rate_hz) # 0
    /\ q_cv_confidence = <<49>>
    /\ q_ret

(* C8 as stated: configured and with a rate of zero or less, should_query  *)
(* is true on every frame.                                                 *)
C8_NonPositiveRateAlwaysSamples ==
    (q_pc = "done" /\ enabled /\ q_sample_rate_hz <= 0) => q_ret

(* C8 amended: configured and with a rate of zero or less, should_query is *)
(* true exactly on frame index 0 and on frames with a supplied confidence  *)
(* below the threshold.                                                    *)
C8_NonPositiveRateSamplesFrameZero ==
    (q_pc = "done" /\ enabled /\ q_sample_rate_hz <= 0) =>
        (q_ret <=> (q_frame_count = 0 \/ SuppliedAndBelow(q_cv_confidence)))

(* a later frame is not queried under a rate of zero *)
C8_Witness ==
    /\ q_pc = "done"
    /\ enabled
    /\ q_sample_rate_hz = 0
    /\ q_frame_count > 0
    /\ q_cv_confidence = NoConfidence
    /\ ~q_ret

----------------------------------------------------------------------------
(* Properties of the debouncer, under SpecDebounce.  A step that leaves    *)
(* the clock alone is a should_speak call.                                 *)

JaccardAtLeastThreshold(a, b) ==
    LET A == Words(a)
        B == Words(b)
    IN  100 * Cardinality(A \cap B) >= SimilarityThreshold * Cardinality(A \cup B)

(* C9: should_speak returns false exactly when less than debounce_sec have *)
(* passed since the last spoken message and the Jaccard overlap of the     *)
(* lower-cased word sets of the text and the last spoken message is at     *)
(* least the threshold; the first call on a fresh debouncer returns true.  *)
C9_Step ==
    now' = now =>
        /\ d_ret' = ~(/\ now - last_time < DebounceSec
                      /\ JaccardAtLeastThreshold(d_message', last_message))
        /\ d_message = EmptyMessage => d_ret'

C9_SuppressSimilarWithinWindow == [][C9_Step]_vars

(* a text that differs from the last spoken one, with overlap exactly at   *)
(* the threshold, is refused on the last tick of the window                *)
C9_Witness ==
    /\ ~d_ret
    /\ d_message # EmptyMessage
    /\ Words(d_message) # Words(last_message)
    /\ now - last_time = DebounceSec - 1

(* C10: a call that returns true sets the last-spoken text and time to the *)
(* text and the time of the call, a call that returns false changes        *)
(* neither; a text identical to the last spoken one is refused while less  *)
(* than debounce_sec have passed since that message was spoken and allowed *)
(* from then on.                                                           *)
C10_Step ==
    now' = now =>
        /\ d_ret' => (last_message' = d_message' /\ last_time' = now)
        /\ ~d_ret' => (last_message' = last_message /\ last_time' = last_time)
        /\ d_message' = last_message => (d_ret' <=> now - last_time >= DebounceSec)

C10_StateChangesOnlyWhenSpoken == [][C10_Step]_vars

(* the text is allowed again when the window closes, after refused calls *)
C10_Witness == reallowed /\ d_ret /\ last_time = now

----------------------------------------------------------------------------
(* Properties of the calibrator, under SpecCalib and SpecDurable *)

Abs(x) == IF x < 0 THEN 0 - x ELSE x

PixelInputs == (0 - 1)..(MaxPix + 1)

(* the depth of the calibration point nearest to a pixel outside the range *)
NearestBoundaryDepth(cal, p) ==
    IF Abs(p - cal.pix_top) <= Abs(p - cal.pix_bot) THEN cal.ft_top ELSE cal.ft_bot

OutsidePixels(cal, p) ==
    \/ p < cal.pix_top /\ p < cal.pix_bot
    \/ p > cal.pix_top /\ p > cal.pix_bot

(* C15: for a mapping with pix_top # pix_bot, inverted depths included,    *)
(* pixel_to_depth is monotonic in the pixel, its result lies between the   *)
(* smaller and the larger of the two depths, and for a pixel outside the   *)
(* calibrated pixel range it is the depth of the nearest boundary.         *)
C15_MonotonicClamped ==
    (c_pc = "done" /\ calibration_data.pix_top # calibration_data.pix_bot) =>
        LET cal == calibration_data
            f(p) == pixel_to_depth(cal, p)
            lo == IF cal.ft_top <= cal.ft_bot THEN cal.ft_top ELSE cal.ft_bot
            hi == IF cal.ft_top <= cal.ft_bot THEN cal.ft_bot ELSE cal.ft_top
        IN  /\ \/ \A p, q \in PixelInputs : p <= q => ~RatLess(f(q), f(p))
               \/ \A p, q \in PixelInputs : p <= q => ~RatLess(f(p), f(q))
            /\ ~RatLess(c_depth, <<lo, 1>>) /\ ~RatLess(<<hi, 1>>, c_depth)
            /\ OutsidePixels(cal, c_pixel_y) =>
                  RatEq(c_depth, <<NearestBoundaryDepth(cal, c_pixel_y), 1>>)

(* C15 for mappings whose depths are not inverted *)
C15_HoldsWhenNotInverted ==
    calibration_data.ft_top <= calibration_data.ft_bot => C15_MonotonicClamped

RoundTripError == Abs(c_round[1] - c_depth_ft * c_round[2])

ValidMapping(cal) == cal.pix_top # cal.pix_bot /\ cal.ft_top # cal.ft_bot

InsideDepths(cal, d) == cal.ft_top <= d /\ d <= cal.ft_bot

C17_CalibrationDurable ==
    (cal_ret = <<>> /\ confirmed # <<>>) => calibration_data = confirmed[1]

----------------------------------------------------------------------------
(* Properties of cluster_detections, under SpecCluster *)

(* squared distance between the centroids of two input detections *)
PairDist2(a, b) ==
    LET dx == a.centroid[1][1] - b.centroid[1][1]
        dy == a.centroid[2][1] - b.centroid[2][1]
    IN  dx * dx + dy * dy

BelowEveryPair ==
    \A i, j \in 1..Len(cl_detections) :
        i < j => cl_merge_distance * cl_merge_distance
                    < PairDist2(cl_detections[i], cl_detections[j])

AboveEveryPair ==
    \A i, j \in 1..Len(cl_detections) :
        i < j => PairDist2(cl_detections[i], cl_detections[j])
                    < cl_merge_distance * cl_merge_distance

(* C18 as stated: for every list of detections, a merge_distance below the *)
(* smallest pairwise centroid distance returns the list unchanged and a    *)
(* merge_distance above every pairwise centroid distance returns exactly   *)
(* one detection, in whatever order the list is.                           *)
C18_ClusterExtremes ==
    cl_pc = "done" =>
        /\ BelowEveryPair => cl_ret = cl_detections
        /\ AboveEveryPair => Len(cl_ret) = 1

(* C18 amended: the same for every list with at least one detection; an   *)
(* empty list is returned empty, and a list of one detection is returned   *)
(* as it is for every merge_distance.                                      *)
C18_ClusterExtremesNonEmpty ==
    cl_pc = "done" =>
        /\ Len(cl_detections) >= 1 =>
              /\ BelowEveryPair => cl_ret = cl_detections /\ cl_merges = 0
              /\ AboveEveryPair => Len(cl_ret) = 1
        /\ Len(cl_detections) <= 1 => cl_ret = cl_detections

(* three detections at three places were merged into one, the second merge *)
(* being one of a merged cluster with a detection                          *)
C18_Witness ==
    /\ cl_pc = "done"
    /\ Len(cl_detections) = 3
    /\ \A i, j \in 1..3 : i # j => cl_detections[i] # cl_detections[j]
    /\ AboveEveryPair
    /\ cl_merges = 2
    /\ Len(cl_ret) = 1

(* far-apart detections came back unmerged *)
C18_WitnessUnchanged ==
    /\ cl_pc = "done"
    /\ Len(cl_detections) = 3
    /\ cl_merge_distance > 0
    /\ BelowEveryPair
    /\ cl_ret = cl_detections

(* how often a detection occurs in a list *)
Occurrences(d, list) == Cardinality({k \in 1..Len(list) : list[k] = d})

RECURSIVE Flatten(_)
Flatten(lists) == IF lists = <<>> THEN <<>> ELSE lists[1] \o Flatten(Tail(lists))

(* the unweighted means of two clusters are at least merge_distance apart *)
MeansApart(c1, c2) ==
    LET n1 == Len(c1)
        n2 == Len(c2)
        sx1 == SumSeq([k \in 1..n1 |-> c1[k].centroid[1][1]])
        sy1 == SumSeq([k \in 1..n1 |-> c1[k].centroid[2][1]])
        sx2 == SumSeq([k \in 1..n2 |-> c2[k].centroid[1][1]])
        sy2 == SumSeq([k \in 1..n2 |-> c2[k].centroid[2][1]])
        dx == sx1 * n2 - sx2 * n1
        dy == sy1 * n2 - sy2 * n1
    IN  dx * dx + dy * dy >= cl_merge_distance * cl_merge_distance * n1 * n1 * n2 * n2

(* C28: the clusters of the result partition the input detections, each    *)
(* output detection has the unweighted mean of its cluster as centroid,    *)
(* and no two output detections are closer than merge_distance (a pair at  *)
(* exactly merge_distance stays unmerged).                                 *)
C28_FixedPointPartition ==
    cl_pc = "done" =>
        /\ Len(cl_clusters) = Len(cl_ret)
        /\ \A k \in 1..Len(cl_clusters) : cl_clusters[k] # <<>>
        /\ Len(Flatten(cl_clusters)) = Len(cl_detections)
        /\ \A k \in 1..Len(cl_detections) :
              Occurrences(cl_detections[k], Flatten(cl_clusters))
                 = Occurrences(cl_detections[k], cl_detections)
        /\ \A k \in 1..Len(cl_ret) :
              LET c == cl_clusters[k]
                  n == Len(c)
              IN  /\ cl_ret[k].centroid[1][1] * n
                        = SumSeq([i \in 1..n |-> c[i].centroid[1][1]]) * cl_ret[k].centroid[1][2]
                  /\ cl_ret[k].centroid[2][1] * n
                        = SumSeq([i \in 1..n |-> c[i].centroid[2][1]]) * cl_ret[k].centroid[2][2]
        /\ \A i, j \in 1..Len(cl_clusters) :
              i < j => MeansApart(cl_clusters[i], cl_clusters[j])

(* two detections were merged and a third one, at merge_distance or        *)
(* farther from their mean, was left alone                                 *)
C28_Witness ==
    /\ cl_pc = "done"
    /\ Len(cl_detections) = 3
    /\ cl_merge_distance > 0
    /\ cl_merges = 1
    /\ Len(cl_ret) = 2

(* a pair at exactly merge_distance came back unmerged *)
C28_WitnessExact ==
    /\ cl_pc = "done"
    /\ Len(cl_detections) = 2
    /\ PairDist2(cl_detections[1], cl_detections[2]) = cl_merge_distance * cl_merge_distance
    /\ cl_merge_distance > 0
    /\ cl_ret = cl_detections

(* C29: the call ends for every input list; every merge lowers the number  *)
(* of clusters by exactly one, so the result has n minus the number of     *)
(* merges detections and there are at most n - 1 merges for n >= 1 input   *)
(* detections (none for an empty list).                                    *)
C29_MergesBounded ==
    cl_pc = "done" =>
        /\ Len(cl_ret) = Len(cl_detections) - cl_merges
        /\ cl_merges <= Max(0, Len(cl_detections) - 1)
        /\ cl_merges >= 0

(* the largest number of merges: n - 1 for n detections at one place *)
C29_Witness ==
    /\ cl_pc = "done"
    /\ Len(cl_detections) = MaxCluster
    /\ cl_merges = MaxCluster - 1
    /\ \A i \in 1..Len(cl_detections) : cl_detections[i] = cl_detections[1]

----------------------------------------------------------------------------
(* Properties of the recommendation engine, under SpecRecommend *)

(* tightness * (density / 255) >= min_confidence, from the fields of d *)
PassesGate(d) ==
    d.tightness[1] * d.density[1] * r_config.min_confidence[2]
        >= r_config.min_confidence[1] * d.tightness[2] * d.density[2] * 255

(* area * tightness of a < that of b *)
ScoreBelow(a, b) ==
    a.area * a.tightness[1] * b.tightness[2] < b.area * b.tightness[1] * a.tightness[2]

(* the first detection of the list that no other one outscores *)
TheBest ==
    r_detections[CHOOSE i \in 1..Len(r_detections) :
        /\ \A j \in 1..Len(r_detections) : ~ScoreBelow(r_detections[i], r_detections[j])
        /\ \A j \in 1..(i - 1) : ScoreBelow(r_detections[j], r_detections[i])]

DismissiveSupplied ==
    /\ r_groq_result # NoResult
    /\ r_groq_result[1].class \in {"debris", "thermocline"}
    /\ r_groq_result[1].confidence[1] * 100 > 60 * r_groq_result[1].confidence[2]

(* C11: with detections and a classification of debris or thermocline     *)
(* with confidence > 0.6 the result is the dismissive cue naming the       *)
(* label, whatever local scoring would say; in every other case the result *)
(* is what the engine returns with no classification at all.               *)
C11_DismissiveCue ==
    r_pc = "done" =>
        IF r_detections # <<>> /\ DismissiveSupplied
        THEN /\ r_live = <<"Likely", r_groq_result[1].class, "-", "ignore", "for", "now.">>
             /\ r_video = r_live
        ELSE /\ r_live = _generate_recommendation(r_detections, NoResult, r_config,
                                                  calibration_data)
             /\ r_video = video_generate_recommendation(r_detections, NoResult, r_config,
                                                        calibration_data)

(* the dismissive cue was given although the best detection fails the gate *)
C11_Witness ==
    /\ r_pc = "done"
    /\ r_detections # <<>>
    /\ DismissiveSupplied
    /\ ~PassesGate(TheBest)
    /\ r_live[1] = "Likely"

(* C12: with no dismissive classification the engine returns None exactly  *)
(* when the list is empty or the detection with the largest                *)
(* area * tightness has tightness * density / 255 below min_confidence;    *)
(* the other detections of the frame do not matter.                        *)
C12_NoneIffBestFailsGate ==
    (r_pc = "done" /\ ~DismissiveSupplied) =>
        /\ r_live = NoCue <=> (r_detections = <<>> \/ ~PassesGate(TheBest))
        /\ r_video = NoCue <=> (r_detections = <<>> \/ ~PassesGate(TheBest))

(* no cue although a detection other than the best one passes the gate *)
C12_Witness ==
    /\ r_pc = "done"
    /\ ~DismissiveSupplied
    /\ Len(r_detections) = 2
    /\ ~PassesGate(TheBest)
    /\ \E i \in 1..2 : PassesGate(r_detections[i])
    /\ r_live = NoCue

IsTight(d) ==
    d.tightness[1] * r_config.tight_school_compactness[2]
        >= r_config.tight_school_compactness[1] * d.tightness[2]

Contains(cue, word) == \E i \in 1..Len(cue) : cue[i] = word

(* the phrasing the claim names for the size and tightness of a detection *)
HasPhrasing(cue, d) ==
    IF d.area >= 5000 /\ IsTight(d) THEN Contains(cue, "Drop") /\ Contains(cue, "hold.")
    ELSE IF d.area >= 1000 THEN Contains(cue, "Troll") /\ Contains(cue, "through")
    ELSE Contains(cue, "Worth") /\ Contains(cue, "checking.")

(* C13: for a best detection that passes the gate, the live and the video  *)
(* pipeline both give the drop-and-hold directive for large and tight, the *)
(* troll-through phrasing for any other medium or large detection and the  *)
(* worth-checking phrasing for a small one, and return the same cue.       *)
C13_SameTemplateBothPipelines ==
    (/\ r_pc = "done"
     /\ r_detections # <<>>
     /\ ~DismissiveSupplied
     /\ PassesGate(TheBest)) =>
        /\ HasPhrasing(r_live, TheBest)
        /\ HasPhrasing(r_video, TheBest)
        /\ r_live = r_video

(* C13 for the live pipeline alone *)
C13_LiveTemplate ==
    (/\ r_pc = "done"
     /\ r_detections # <<>>
     /\ ~DismissiveSupplied
     /\ PassesGate(TheBest)) =>
        HasPhrasing(r_live, TheBest)

----------------------------------------------------------------------------
(* Properties of the live loop, under SpecLive and SpecLiveFair *)

(* C19: an iteration in which the frame source yields no frame leaves the  *)
(* tracker's table, the debouncer's last message and time and the frame    *)
(* counter as they were, produces no recommendation and no speech request, *)
(* and the loop is still running afterwards.                               *)
C19_Step ==
    (l_frame' = NoFrame /\ running) =>
        /\ UNCHANGED <<next_object_id, objects, disappeared, detections_history>>
        /\ UNCHANGED <<last_message, last_time>>
        /\ UNCHANGED <<l_frame_count, l_fps, last_fps_time>>
        /\ l_recommendation' = NoCue
        /\ l_speech' = NoCue
        /\ running'

C19_NoFrameCycleSkipped == [][C19_Step]_vars

(* a frame was missed while a track was in the table and a cue had been spoken *)
C19_Witness ==
    /\ l_frame = NoFrame
    /\ running
    /\ DOMAIN objects # {}
    /\ last_message # EmptyMessage
    /\ l_frame_count > 0

QuitRequested == running /\ pending_key \in {"q", "esc"}

(* C20: once Q or ESC has been pressed while the loop runs, the loop       *)
(* eventually exits, whether it is processing frames, paused or getting no *)
(* frames from the source.                                                 *)
C20_QuitEventuallyExits == QuitRequested ~> ~running

(* C20 holds but for the iterations that get no frame *)
C20_QuitExitsUnlessNoFrame == QuitRequested ~> (~running \/ l_frame = NoFrame)

----------------------------------------------------------------------------
(* Properties of GroqCV.analyze, under SpecAnalyze *)

(* the body has a string at choices[0].message.content *)
WellShaped(body) ==
    /\ body.t = "dict"
    /\ "choices" \in DOMAIN body.v
    /\ body.v.choices.t = "list"
    /\ Len(body.v.choices.v) > 0
    /\ body.v.choices.v[1].t = "dict"
    /\ "message" \in DOMAIN body.v.choices.v[1].v
    /\ body.v.choices.v[1].v.message.t = "dict"
    /\ "content" \in DOMAIN body.v.choices.v[1].v.message.v
    /\ body.v.choices.v[1].v.message.v.content.t = "str"

CallFailed ==
    \/ a_encode = "error"
    \/ a_request # "ok"
    \/ a_status # 200
    \/ ~WellShaped(Bodies[a_body])

DegradedToUnknown ==
    /\ a_outcome.kind = "return"
    /\ a_outcome.class = "unknown"
    /\ a_outcome.confidence = 0
    /\ a_pipeline = "recommendation"

(* C14: every failed call (encoding error, timeout, transport error,       *)
(* non-200 status, body of any malformed shape) makes analyze return       *)
(* unknown with confidence 0.0, and the frame pipeline goes on to its      *)
(* recommendation; nothing is raised.                                      *)
C14_FailuresDegradeToUnknown ==
    (a_pc = "done" /\ a_enabled /\ CallFailed) => DegradedToUnknown

(* C14 for the failures other than a body in which a subscript or the      *)
(* content has the wrong type *)
C14_HoldsForMissingMembers ==
    (/\ a_pc = "done"
     /\ a_enabled
     /\ CallFailed
     /\ ~(a_encode = "ok" /\ a_request = "ok" /\ a_status = 200
            /\ GetContent(Bodies[a_body]).exc \in {"", "TypeError"})) => DegradedToUnknown

----------------------------------------------------------------------------
(* Further properties of the tracker, under Spec *)

(* C23: a track's detection history is bounded by a fixed number whatever  *)
(* the length of the run; then in a run long enough (here: of MaxFrames    *)
(* update calls) every history is shorter than the run.                    *)
C23_HistoryBounded ==
    \A id \in DOMAIN detections_history :
        Len(detections_history[id]) < MaxFrames

(* what the code does instead: a track matched on every call since it was  *)
(* registered holds one detection per call                                 *)
C23_HistoryGrowsWithEveryMatch ==
    (steady /\ frame >= 1) => Len(detections_history[0]) = frame

(* C24: a track that was in the table before an update and was not matched *)
(* by it has no detection of the call within max_distance that was left    *)
(* free (and so registered as a new track): at its turn it would have been *)
(* assigned the nearest free detection within max_distance.                *)
C24_Step ==
    Len(last_dets') > 0 =>
        \A id \in (DOMAIN objects) \ matched' :
            \A new \in (DOMAIN objects') \ (DOMAIN objects) :
                Dist2(objects[id], objects'[new]) > MaxDistance * MaxDistance

C24_NextNearestFreeDetection == [][C24_Step]_vars

----------------------------------------------------------------------------
(* Properties of analyze_video, under SpecVideo and SpecVideoFair *)

(* the list analyze_video returned has one record per frame of the file,   *)
(* in the order read and numbered from 1, each with the detections of its  *)
(* frame, and with no recommendation when the frame has no detections      *)
RecordsOfFramesRead(r) ==
    /\ Len(v_ret[r]) = v_len[r]
    /\ Len(v_read[r]) = v_len[r]
    /\ \A i \in 1..Len(v_ret[r]) :
          /\ v_ret[r][i].frame = i
          /\ v_ret[r][i].detections = v_read[r][i]
          /\ (v_read[r][i] = <<>> => v_ret[r][i].recommendation = NoCue)

(* C21: analyze_video never reads past the frames of the file, every       *)
(* iteration of its loop reads one more, and it returns when cap.read()    *)
(* reports the end of the video; the list returned has exactly one record  *)
(* per frame read, in frame order, with frame numbers 1..N, each record    *)
(* with that frame's detections; a frame without detections has an empty   *)
(* detection list and no recommendation.                                   *)
C21_OneRecordPerFrame ==
    \A r \in Requests :
        /\ v_frame_idx[r] <= v_len[r]
        /\ Len(v_read[r]) = v_frame_idx[r]
        /\ v_pc[r] = "done" => RecordsOfFramesRead(r)

C21_Witness ==
    \E r \in Requests :
        /\ v_pc[r] = "done"
        /\ Len(v_ret[r]) = MaxVideoFrames
        /\ v_ret[r][1].detections = <<>>
        /\ v_ret[r][MaxVideoFrames].detections # <<>>
        /\ v_ret[r][MaxVideoFrames].recommendation # NoCue

(* a video none of whose frames has a detection was analysed to its end *)
C21_WitnessNoDetections ==
    \E r \in Requests :
        /\ v_pc[r] = "done"
        /\ Len(v_ret[r]) = MaxVideoFrames
        /\ \A i \in 1..Len(v_ret[r]) :
              v_ret[r][i].detections = <<>> /\ v_ret[r][i].recommendation = NoCue

(* C27: while an analysis is running, every track in the tracker's table   *)
(* was registered by a frame of that analysis: no track of another         *)
(* analysis, finished or suspended, is there to be matched or to shift the *)
(* ids.                                                                    *)
C27_SingleOwner ==
    \A r \in Requests :
        v_pc[r] \in {"loop", "groq"} =>
            \A id \in DOMAIN objects : v_owner[id] = r

(* a request suspended in the classifier call and another that has fed a  *)
(* frame of its own video to the same tracker meanwhile                    *)
C27_Interleaved ==
    \E r, s \in Requests :
        /\ v_pc[r] = "groq"
        /\ v_pc[s] = "loop"
        /\ Len(v_read[s]) >= 1
        /\ frame = Len(v_read[r]) + Len(v_read[s])

----------------------------------------------------------------------------
(* Properties of the live loop step by step, under SpecRun *)

(* C22: no failure of the overlay sink (an error in _draw_overlay or in    *)
(* cv2.imshow) ends the loop; failures of the speech sink do not either.   *)
C22_SinkFailureNeverAborts == l_pc \notin {"draw_error", "show_error"}

(* what holds of the speech sink alone: the speak task fails on its own,   *)
(* the loop goes on and the cue was printed                                *)
C22_SpeechFailureContinues ==
    l_log # NoCue /\ l_pc = "loop" /\ running

(* C25: while the classifier request of a frame is in flight the loop can  *)
(* go through another iteration, that is acquire and process the next      *)
(* frame.                                                                  *)
C25_AcquisitionNotBlocked == (l_pc = "groq" /\ running) => ENABLED Iterate

(* the spacing of the query budget: max(1, floor(targetFps / targetSampleRateHz)) *)
BudgetWindow == Max(1, l_target_fps \div l_sample_rate_hz)

(* C30: among any BudgetWindow consecutive processed frames at most one    *)
(* triggered a classifier query.                                           *)
C30_QueryBudget ==
    \A i, j \in 1..Len(l_queries) :
        (i < j /\ j - i < BudgetWindow /\ l_queries[i]) => ~l_queries[j]

(* a query right after the loop reset its frame counter, following a query *)
(* on the frame before                                                     *)
C30_AcrossReset ==
    /\ Len(l_queries) >= 2
    /\ l_queries[Len(l_queries)] /\ l_queries[Len(l_queries) - 1]
    /\ l_pc = "groq"
    /\ l_frame_count = 0
    /\ l_fps[1] > 0

----------------------------------------------------------------------------
(* Properties of the speech tasks, under SpecSpeech *)

(* C26: no two speak tasks in flight at the same time have the same text   *)
(* or texts that the debouncer counts as similar.                          *)
C26_OneTaskPerCue ==
    \A i, j \in 1..Len(in_flight) :
        i < j => /\ in_flight[i].text # in_flight[j].text
                 /\ ~_is_similar(in_flight[i].text, in_flight[j].text)

(* the first utterance is still in flight debounce_sec after it began and  *)
(* the same cue has been started again                                     *)
C26_LongUtterance ==
    \E i, j \in 1..Len(in_flight) :
        /\ i < j
        /\ in_flight[i].text = in_flight[j].text
        /\ in_flight[j].started - in_flight[i].started >= DebounceSec

====
